---- MODULE Spec2Model ----
(***************************************************************************)
(* Model of the per-frame record-and-submit scheduler of vsg::Viewer       *)
(* (src/src/vsg/viewer/Viewer.cpp): the frame life cycle of the viewer,    *)
(* the grouping of command graphs into RecordAndSubmitTasks, the thread    *)
(* topology started by setupThreading() and its shutdown.                  *)
(*                                                                         *)
(* ActivityStatus, FrameBlock, Barrier, RecordAndSubmitTask and Window are *)
(* classes of the repository whose sources are not part of the excerpt;    *)
(* they are modelled from their description in the specification.          *)
(***************************************************************************)
EXTENDS Integers, Sequences, FiniteSets, Bags, TLC

(***************************************************************************)
(* Bounds of the model.                                                    *)
(***************************************************************************)
\* largest frame count the viewer advances to
MaxFrame == 1
\* largest number of command graphs handed to the viewer
MaxGraphs == 3
\* largest number of windows added to the viewer
MaxWindows == 2
\* largest number of recoverable acquire failures in a row on one window
MaxRetry == 1
\* largest number of tasks without a command graph in the viewer's task list
MaxEmptyTasks == 1
\* the longest event list the application lets pollEvents(false) build up
MaxEvents == 5

(***************************************************************************)
(* Frame stamps.  A ref_ptr<FrameStamp> is <<>> when null and <<n>> when   *)
(* it points to a stamp with frameCount n (the time field plays no role).  *)
(***************************************************************************)
NullStamp == << >>

FrameCount(s) == s[1]

\* NextStamp with the frame count copied instead of incremented
NextStampSameCount(s) == IF s # NullStamp THEN <<FrameCount(s)>> ELSE <<0>>

\* the stamp created by advance()/advanceToNextFrame() from the current one
NextStamp(s) == IF s # NullStamp THEN <<FrameCount(s) + 1>> ELSE <<0>>

\* Newer that also takes a published value with the caller's frame count
NewerOrEqual(v, s) == v # NullStamp /\ (s = NullStamp \/ FrameCount(v) >= FrameCount(s))

\* FrameBlock: the published value v is a change for a caller holding s
Newer(v, s) == v # NullStamp /\ (s = NullStamp \/ FrameCount(v) > FrameCount(s))

(***************************************************************************)
(* Command graphs and their grouping into tasks.                           *)
(***************************************************************************)
\* DeviceQueueFamily that leaves the present family out of the key
DeviceQueueFamilyNoPresent(g) ==
    [device |-> g.device, queueFamily |-> g.queueFamily, presentFamily |-> 0]

\* the key of the std::map in assignRecordAndSubmitTaskAndPresentation
DeviceQueueFamily(g) ==
    [device |-> g.device, queueFamily |-> g.queueFamily, presentFamily |-> g.presentFamily]

\* DeviceQueueFamily::operator<
KeyLess(a, b) ==
    IF a.device < b.device THEN TRUE
    ELSE IF a.device > b.device THEN FALSE
    ELSE IF a.queueFamily < b.queueFamily THEN TRUE
    ELSE IF a.queueFamily > b.queueFamily THEN FALSE
    ELSE a.presentFamily < b.presentFamily

RECURSIVE SortedKeys(_)
\* the keys of the map in iteration order
SortedKeys(S) ==
    IF S = {} THEN << >>
    ELSE LET m == CHOOSE k \in S : \A o \in S \ {k} : KeyLess(k, o)
         IN <<m>> \o SortedKeys(S \ {m})

\* the elements of a sequence that satisfy a test, in their order
RECURSIVE SelectKey(_, _)
SelectKey(cgs, k) ==
    IF cgs = << >> THEN << >>
    ELSE IF DeviceQueueFamily(Head(cgs)) = k
         THEN <<Head(cgs)>> \o SelectKey(Tail(cgs), k)
         ELSE SelectKey(Tail(cgs), k)

\* deviceCommandGraphsMap, as the sequence of its (key, graphs) entries
DeviceCommandGraphsMap(cgs) ==
    LET keys == SortedKeys({DeviceQueueFamily(cgs[i]) : i \in 1..Len(cgs)})
    IN [j \in 1..Len(keys) |-> [key |-> keys[j], commandGraphs |-> SelectKey(cgs, keys[j])]]

\* the RecordAndSubmitTask created for one entry of the map
\* the windows of a group of command graphs (uniqueWindows)
UniqueWindows(cgs) == {cgs[i].window : i \in 1..Len(cgs)}

\* the render-finished semaphore created for the group of a key
RenderFinishedSemaphore(key) == <<"renderFinishedSemaphore", key>>

\* the RecordAndSubmitTask created for one entry of the map: with a present
\* family it is given the windows of its graphs and signals the semaphore
NewTask(e) ==
    [device |-> e.key.device,
     queue |-> <<e.key.device, e.key.queueFamily>>,
     commandGraphs |-> e.commandGraphs,
     windows |-> IF e.key.presentFamily >= 0 THEN UniqueWindows(e.commandGraphs) ELSE {},
     signalSemaphores |-> IF e.key.presentFamily >= 0
                          THEN <<RenderFinishedSemaphore(e.key)>> ELSE << >>]

\* the tasks appended by assignRecordAndSubmitTaskAndPresentation
AssignedTasks(cgs) ==
    LET m == DeviceCommandGraphsMap(cgs)
    IN [j \in 1..Len(m) |-> NewTask(m[j])]

\* number of command buffers the command graph with this id (the number of its
\* kind and its rank among the graphs of its kind) records per frame
NumBuffers(id) == <<3, 2, 4>>[((id[1] + id[2] - 2) % 3) + 1]

\* the command buffers recorded by graph g for the frame stamp s
RecordedBuffers(g, s) == [k \in 1..NumBuffers(g.id) |-> <<g.id, s, k>>]

RECURSIVE RecordAll(_, _)
\* the buffers of a sequence of command graphs recorded one after the other
RecordAll(gs, s) ==
    IF gs = << >> THEN << >>
    ELSE RecordedBuffers(Head(gs), s) \o RecordAll(Tail(gs), s)

(***************************************************************************)
(* Windows.  acquireNextImage() of a window returns, call after call, the  *)
(* results of a script chosen by the environment.                          *)
(***************************************************************************)
\* the results for which acquireNextFrame() rebuilds the swapchain and retries
Recoverable ==
    {"VK_ERROR_SURFACE_LOST_KHR", "VK_ERROR_DEVICE_LOST",
     "VK_ERROR_OUT_OF_DATE_KHR", "VK_ERROR_FULL_SCREEN_EXCLUSIVE_MODE_LOST_EXT"}

\* results that end the retry loop with a failure
Unrecoverable == {"VK_ERROR_OUT_OF_HOST_MEMORY", "VK_NOT_READY"}

VkResults == {"VK_SUCCESS"} \cup Recoverable \cup Unrecoverable

\* what the successive acquireNextImage() calls on one window return: at most
\* MaxRetry recoverable failures, then a success or an unrecoverable failure
AcquireScripts ==
    UNION {{pre \o <<last>> : pre \in [1..n -> Recoverable],
                              last \in {"VK_SUCCESS"} \cup Unrecoverable} : n \in 0..MaxRetry}

\* AcquireLoop that leaves the while loop on the first failure of any kind
AcquireLoopNoRetry(script, resizes) ==
    [result |-> Head(script), resizes |-> resizes, rest |-> Tail(script)]

RECURSIVE AcquireLoop(_, _)
\* the while loop of acquireNextFrame() on one window: the last result, the
\* number of resize() calls and the results the window was not asked for
AcquireLoop(script, resizes) ==
    LET result == Head(script)
    IN IF result = "VK_SUCCESS"
       THEN [result |-> result, resizes |-> resizes, rest |-> Tail(script)]
       ELSE IF result \in Recoverable THEN AcquireLoop(Tail(script), resizes + 1)
       ELSE [result |-> result, resizes |-> resizes, rest |-> Tail(script)]

\* the body of the for loop of acquireNextFrame() for one window: a window that
\* is not visible is skipped and leaves result as it is; calls is the number
\* of acquireNextImage() calls made on the window
AcquireWindow(w, script, result) ==
    IF ~w.visible
    THEN [result |-> result, window |-> [result |-> "skipped", resizes |-> 0, calls |-> 0]]
    ELSE LET r == AcquireLoop(script, 0)
         IN [result |-> r.result,
             window |-> [result |-> r.result, resizes |-> r.resizes,
                         calls |-> Len(script) - Len(r.rest)]]

\* ViewerIsActive that looks at the windows only
ViewerIsActiveIgnoringClose(closed, ws) == \A i \in 1..Len(ws) : ws[i].valid

\* Viewer::active: the local variable viewerIsActive, from the viewer's _close
\* flag and the validity of its windows
ViewerIsActive(closed, ws) == ~closed /\ \A i \in 1..Len(ws) : ws[i].valid

\* Viewer::deviceWaitIdle: the std::set of the devices of the windows that have
\* one (device 0: the window has no device)
WindowDevices(ws) == {ws[i].device : i \in {j \in 1..Len(ws) : ws[j].device # 0}}

(***************************************************************************)
(* Barrier (N-party rendezvous).                                           *)
(***************************************************************************)
\* Barrier::create(num)
NewBarrier(num) == [required |-> num, arrived |-> 0, phase |-> 0, arrivers |-> {}]

\* the arrival of party who: the last arriver resets the count and moves the
\* barrier to its next generation (arrivers: who arrived in this generation)
Arrive(b, who) ==
    IF b.arrived + 1 = b.required
    THEN [b EXCEPT !.arrived = 0, !.phase = @ + 1, !.arrivers = {}]
    ELSE [b EXCEPT !.arrived = @ + 1, !.arrivers = @ \cup {who}]

\* the arrival of a party completes the barrier's generation
Releases(b) == b.arrived + 1 = b.required

(***************************************************************************)
(* State.                                                                  *)
(***************************************************************************)
VARIABLES
    _close,                \* Viewer::_close
    _status,               \* the ActivityStatus flag shared with the FrameBlock
    _threading,            \* Viewer::_threading
    _frameStamp,           \* Viewer::_frameStamp
    _events,               \* Viewer::_events
    _windows,              \* Viewer::_windows, each [valid, visible, device]
    recordAndSubmitTasks,  \* Viewer::recordAndSubmitTasks
    presentations,         \* Viewer::presentations
    threads,               \* Viewer::threads, the ids <<task, graph>> of the workers
    _frameBlock,           \* the FrameBlock of the session: its published value
    _submissionCompleted,  \* the Barrier of the session
    sharedData,            \* SharedData of each multi-graph task
    worker,                \* per worker thread: pc, frameStamp, local buffers, phase
    main,                  \* the orchestrator thread: pc, barrier phase, caller, the
                           \* devices the last deviceWaitIdle() has waited for, and
                           \* the progress of compile() with the state of the
                           \* database pagers
    lastAcquire,           \* the advanceToNextFrame() in progress or just returned: its
                           \* return value, whether it called acquireNextFrame(), the
                           \* local variable result and the outcome per window; after
                           \* an active() or a pollEvents() of the application: the
                           \* value that call returned, as ret
    frame                  \* bookkeeping of the current recordAndSubmit() round

viewerVars == <<_close, _status, _threading, _frameStamp, _events, _windows,
                recordAndSubmitTasks, presentations>>
sessionVars == <<threads, _frameBlock, _submissionCompleted, sharedData, worker>>
vars == <<viewerVars, sessionVars, main, lastAcquire, frame>>

\* the indices of the tasks
TaskIds == 1..Len(recordAndSubmitTasks)

\* the ids of the worker threads
ThreadIds == {threads[n] : n \in 1..Len(threads)}

\* the id of the orchestrator thread as a party of a barrier
MainThread == <<0, 0>>

\* the task and the command graph a worker thread was started with
TaskOf(th) == recordAndSubmitTasks[th[1]]
GraphOf(th) == TaskOf(th).commandGraphs[th[2]]

\* the lambda a worker thread runs
RoleOf(th) ==
    IF Len(TaskOf(th).commandGraphs) = 1 THEN "run"
    ELSE IF th[2] = 1 THEN "run_primary" ELSE "run_secondary"

\* the command buffers of a collection with the number of times each occurs
BagOf(bufs) ==
    [b \in {bufs[n] : n \in 1..Len(bufs)} |-> Cardinality({n \in 1..Len(bufs) : bufs[n] = b})]

\* bookkeeping at the start of a recordAndSubmit() round in the given mode
NewFrame(mode, stamp) ==
    [mode |-> mode, stamp |-> stamp, returned |-> FALSE,
     starts |-> [t \in TaskIds |-> 0],
     submits |-> [t \in TaskIds |-> 0],
     submitted |-> [t \in TaskIds |-> << >>],
     recorded |-> [t \in TaskIds |-> [i \in 1..Len(recordAndSubmitTasks[t].commandGraphs) |-> << >>]],
     order |-> << >>, presented |-> << >>]

\* bookkeeping when no recordAndSubmit() round belongs to the present session
NoFrame ==
    [mode |-> "none", stamp |-> NullStamp, returned |-> FALSE,
     starts |-> << >>, submits |-> << >>, submitted |-> << >>, recorded |-> << >>,
     order |-> << >>, presented |-> << >>]

\* no advanceToNextFrame() has just returned
NoAcquire == [ret |-> FALSE, acquired |-> FALSE, result |-> "VK_SUCCESS", windows |-> << >>]

\* the database pagers an application hands to the viewer
PagerIds == {1, 2}

\* compile() has not been called: no pager has a compile traversal or runs
NoCompile ==
    [stage |-> "none", next |-> 1, devices |-> {}, compiled |-> {}, dispatched |-> {},
     completed |-> {},
     pagers |-> [p \in PagerIds |-> [compileTraversal |-> 0, started |-> 0]]]

\* Viewer::Viewer
Init ==
    /\ _close = FALSE
    /\ _status = TRUE
    /\ _threading = FALSE
    /\ _frameStamp = NullStamp
    /\ _events = << >>
    /\ _windows = << >>
    /\ recordAndSubmitTasks = << >>
    /\ presentations = << >>
    /\ threads = << >>
    /\ _frameBlock = NullStamp
    /\ _submissionCompleted = NewBarrier(1)
    /\ sharedData = << >>
    /\ worker = << >>
    /\ main = [pc |-> "idle", phase |-> 0, ret |-> "none", waited |-> {},
               compile |-> NoCompile]
    /\ lastAcquire = NoAcquire
    /\ frame = NoFrame

(***************************************************************************)
(* Operations of the viewer, called by the orchestrator thread.            *)
(***************************************************************************)
\* the kinds of command graph handed to the viewer: device, queue family,
\* present family (-1: not associated with a window) and window
CommandGraphKinds ==
    <<[device |-> 1, queueFamily |-> 0, presentFamily |-> -1, window |-> 1],
      [device |-> 1, queueFamily |-> 0, presentFamily |-> 0, window |-> 1]>>

\* a command graph of a kind; id tells the command graphs apart
CommandGraph(id, kind) ==
    [id |-> id, device |-> kind.device, queueFamily |-> kind.queueFamily,
     presentFamily |-> kind.presentFamily, window |-> kind.window]

\* the inputs of assignRecordAndSubmitTaskAndPresentation: up to MaxGraphs
\* command graphs of any kinds in any order, each identified by the number of
\* its kind and its rank among the graphs of its kind in the input
CommandGraphInputs ==
    UNION {{[i \in 1..n |->
                CommandGraph(<<ks[i], Cardinality({j \in 1..i : ks[j] = ks[i]})>>,
                             CommandGraphKinds[ks[i]])] :
            ks \in [1..n -> DOMAIN CommandGraphKinds]} : n \in 0..MaxGraphs}

\* the Presentation objects appended by assignRecordAndSubmitTaskAndPresentation,
\* first being the index of the first task it creates
AssignedPresentations(cgs, first) ==
    LET m == DeviceCommandGraphsMap(cgs)
        withPresent == {j \in 1..Len(m) : m[j].key.presentFamily >= 0}
        RECURSIVE build(_)
        build(j) ==
            IF j > Len(m) THEN << >>
            ELSE IF j \in withPresent
                 THEN <<[task |-> first + j - 1,
                         waitSemaphores |-> <<RenderFinishedSemaphore(m[j].key)>>,
                         windows |-> UniqueWindows(m[j].commandGraphs),
                         queue |-> <<m[j].key.device, m[j].key.presentFamily>>]>> \o build(j + 1)
                 ELSE build(j + 1)
    IN build(1)

\* the orchestrator is outside any call on the viewer
Idle == main.pc = "idle"

\* Viewer::assignRecordAndSubmitTaskAndPresentation
AssignRecordAndSubmitTaskAndPresentation ==
    /\ Idle
    /\ recordAndSubmitTasks = << >>
    /\ threads = << >>
    /\ \E cgs \in CommandGraphInputs :
        /\ recordAndSubmitTasks' = recordAndSubmitTasks \o AssignedTasks(cgs)
        /\ presentations' =
               presentations \o AssignedPresentations(cgs, Len(recordAndSubmitTasks) + 1)
    /\ UNCHANGED <<_close, _status, _threading, _frameStamp, _events, _windows>>
    /\ UNCHANGED <<sessionVars, main, lastAcquire, frame>>

\* pollEvents: the for loop over the windows, window->pollEvents(_events) of
\* each in the order of _windows; window i delivers an event when polled[i]
WindowEvents(ws, polled) ==
    LET RECURSIVE poll(_)
        poll(i) == IF i > Len(ws) THEN << >>
                   ELSE (IF polled[i] THEN <<(<<"window", i>>)>> ELSE << >>) \o poll(i + 1)
    IN poll(1)

\* Viewer::pollEvents(discardPreviousEvents): _events after the call
PolledEvents(evs, ws, polled, discardPreviousEvents) ==
    (IF discardPreviousEvents THEN << >> ELSE evs) \o WindowEvents(ws, polled)

\* Viewer::pollEvents: the value returned, true when a window delivered events
PollEventsResult(ws, polled) == \E i \in 1..Len(ws) : polled[i]

\* Viewer::pollEvents called by the application
PollEvents ==
    /\ Idle
    /\ \E discardPreviousEvents \in BOOLEAN, polled \in [1..Len(_windows) -> BOOLEAN] :
        /\ Len(PolledEvents(_events, _windows, polled, discardPreviousEvents)) <= MaxEvents
        /\ _events' = PolledEvents(_events, _windows, polled, discardPreviousEvents)
        /\ lastAcquire' = [NoAcquire EXCEPT !.ret = PollEventsResult(_windows, polled)]
    /\ UNCHANGED <<_close, _status, _threading, _frameStamp, _windows, recordAndSubmitTasks,
                   presentations>>
    /\ UNCHANGED <<sessionVars, main, frame>>

\* Viewer::deviceWaitIdle, called by the application or by the destructor,
\* after which the members of the viewer are released
DeviceWaitIdle ==
    /\ main.pc \in {"idle", "deviceWaitIdle"}
    /\ main' = [main EXCEPT !.pc = IF main.pc = "deviceWaitIdle" THEN "destroyed" ELSE "idle",
                            !.waited = WindowDevices(_windows)]
    /\ UNCHANGED <<viewerVars, sessionVars, lastAcquire, frame>>

\* Viewer::active called by the application: a viewer that is closed or has a
\* window that is not valid waits for the devices of its windows
\* (deviceWaitIdle()) and returns false
Active ==
    /\ Idle
    /\ main' = [main EXCEPT !.waited = IF ViewerIsActive(_close, _windows) THEN @
                                        ELSE WindowDevices(_windows)]
    /\ lastAcquire' = [NoAcquire EXCEPT !.ret = ViewerIsActive(_close, _windows)]
    /\ UNCHANGED <<viewerVars, sessionVars, frame>>

\* Advance with pollEvents(false): the events of the previous frame are kept
AdvanceKeepsEvents ==
    /\ Idle
    /\ (_frameStamp # NullStamp => FrameCount(_frameStamp) < MaxFrame)
    /\ \E polled \in [1..Len(_windows) -> BOOLEAN] :
        /\ _frameStamp' = NextStamp(_frameStamp)
        /\ _events' = Append(PolledEvents(_events, _windows, polled, FALSE),
                             <<"frame", _frameStamp'>>)
    /\ UNCHANGED <<_close, _status, _threading, _windows, recordAndSubmitTasks, presentations>>
    /\ lastAcquire' = NoAcquire
    /\ UNCHANGED <<sessionVars, main, frame>>

\* Viewer::advance
Advance ==
    /\ Idle
    /\ (_frameStamp # NullStamp => FrameCount(_frameStamp) < MaxFrame)
    /\ \E polled \in [1..Len(_windows) -> BOOLEAN] :
        /\ _frameStamp' = NextStamp(_frameStamp)
        /\ _events' = Append(PolledEvents(_events, _windows, polled, TRUE),
                             <<"frame", _frameStamp'>>)
    /\ UNCHANGED <<_close, _status, _threading, _windows, recordAndSubmitTasks, presentations>>
    /\ lastAcquire' = NoAcquire
    /\ UNCHANGED <<sessionVars, main, frame>>

\* Viewer::advanceToNextFrame up to the for loop of acquireNextFrame(): a
\* viewer that is not active waits for the devices of its windows in active()
\* and the call returns false
AdvanceToNextFrame ==
    /\ Idle
    /\ (_frameStamp # NullStamp => FrameCount(_frameStamp) < MaxFrame)
    /\ IF ~ViewerIsActive(_close, _windows)
       THEN /\ lastAcquire' = [ret |-> FALSE, acquired |-> FALSE, result |-> "VK_SUCCESS",
                               windows |-> << >>]
            /\ main' = [main EXCEPT !.waited = WindowDevices(_windows)]
            /\ UNCHANGED _events
       ELSE /\ \E polled \in [1..Len(_windows) -> BOOLEAN] :
                  _events' = PolledEvents(_events, _windows, polled, TRUE)
            /\ lastAcquire' = [ret |-> FALSE, acquired |-> TRUE, result |-> "VK_SUCCESS",
                               windows |-> << >>]
            /\ main' = [main EXCEPT !.pc = "acquire"]
    /\ UNCHANGED <<_close, _status, _threading, _frameStamp, _windows, recordAndSubmitTasks,
                   presentations>>
    /\ UNCHANGED <<sessionVars, frame>>

\* acquireNextFrame: the body of the for loop for the next window
AcquireNextImage ==
    /\ main.pc = "acquire"
    /\ Len(lastAcquire.windows) < Len(_windows)
    /\ \E script \in AcquireScripts :
        LET w == _windows[Len(lastAcquire.windows) + 1]
            r == AcquireWindow(w, script, lastAcquire.result)
        IN lastAcquire' = [lastAcquire EXCEPT !.result = r.result,
                                              !.windows = Append(@, r.window)]
    /\ UNCHANGED <<viewerVars, sessionVars, main, frame>>

\* AdvanceToNextFrameReturn that creates the stamp and its FrameEvent whatever
\* acquireNextFrame() has returned
AdvanceToNextFrameReturnStampAlways ==
    /\ main.pc = "acquire"
    /\ Len(lastAcquire.windows) = Len(_windows)
    /\ main' = [main EXCEPT !.pc = "idle"]
    /\ lastAcquire' = [lastAcquire EXCEPT !.ret = (lastAcquire.result = "VK_SUCCESS")]
    /\ _frameStamp' = NextStamp(_frameStamp)
    /\ _events' = Append(_events, <<"frame", _frameStamp'>>)
    /\ UNCHANGED <<_close, _status, _threading, _windows, recordAndSubmitTasks, presentations>>
    /\ UNCHANGED <<sessionVars, frame>>

\* acquireNextFrame returns result == VK_SUCCESS and advanceToNextFrame
\* returns false, or creates the frame stamp and returns true
AdvanceToNextFrameReturn ==
    /\ main.pc = "acquire"
    /\ Len(lastAcquire.windows) = Len(_windows)
    /\ main' = [main EXCEPT !.pc = "idle"]
    /\ lastAcquire' = [lastAcquire EXCEPT !.ret = (lastAcquire.result = "VK_SUCCESS")]
    /\ IF lastAcquire.result # "VK_SUCCESS"
       THEN UNCHANGED <<_frameStamp, _events>>
       ELSE /\ _frameStamp' = NextStamp(_frameStamp)
            /\ _events' = Append(_events, <<"frame", _frameStamp'>>)
    /\ UNCHANGED <<_close, _status, _threading, _windows, recordAndSubmitTasks, presentations>>
    /\ UNCHANGED <<sessionVars, frame>>

\* FrameBlock: notify_all wakes every thread blocked in wait_for_change
NotifyAll(w) ==
    [th \in DOMAIN w |-> IF w[th].pc = "blocked" THEN [w[th] EXCEPT !.pc = "wfc"] ELSE w[th]]

\* the threads setupThreading() starts, in the order of their creation
\* NewThreads with a single thread for every task, whatever its number of graphs
NewThreadsOnePerTask(tasks, t) ==
    SelectSeq([u \in 1..Len(tasks) |-> <<u, 1>>],
              LAMBDA x : x[1] >= t /\ Len(tasks[x[1]].commandGraphs) >= 1)

RECURSIVE NewThreads(_, _)
NewThreads(tasks, t) ==
    IF t > Len(tasks) THEN << >>
    ELSE [i \in 1..Len(tasks[t].commandGraphs) |-> <<t, i>>] \o NewThreads(tasks, t + 1)

RECURSIVE SumGraphs(_)
\* numCommandGraphs of setupThreading()
SumGraphs(tasks) ==
    IF tasks = << >> THEN 0 ELSE Len(Head(tasks).commandGraphs) + SumGraphs(Tail(tasks))

\* NumValidTasks that counts every task, with or without command graphs
NumValidTasksAll(tasks) == Len(tasks)

\* NumValidTasks without the party of the orchestrator that setupThreading() adds
NumValidTasksLessOne(tasks) ==
    Cardinality({t \in 1..Len(tasks) : Len(tasks[t].commandGraphs) >= 1}) - 1

\* numValidTasks of setupThreading()
NumValidTasks(tasks) == Cardinality({t \in 1..Len(tasks) : Len(tasks[t].commandGraphs) >= 1})

\* NewSharedData with barriers for a single party
NewSharedDataSizeOne(numThreads) ==
    [recordStartBarrier |-> NewBarrier(1),
     recordCompletedBarrier |-> NewBarrier(1),
     recordedCommandBuffers |-> << >>]

\* SharedData::SharedData
NewSharedData(numThreads) ==
    [recordStartBarrier |-> NewBarrier(numThreads),
     recordCompletedBarrier |-> NewBarrier(numThreads),
     recordedCommandBuffers |-> << >>]

\* a worker thread at the start of its lambda
NewWorker == [pc |-> "wfc", frameStamp |-> NullStamp, local |-> << >>, phase |-> 0]

\* Viewer::setupThreading after its call of stopThreading(), which left the
\* thread list thr, the worker threads wrk and their shared data shd
SetupThreadingBody(thr, wrk, shd) ==
    IF SumGraphs(recordAndSubmitTasks) <= 1
    THEN /\ UNCHANGED <<_threading, _frameBlock, _submissionCompleted>>
         /\ threads' = thr
         /\ worker' = wrk
         /\ sharedData' = shd
    ELSE /\ _threading' = TRUE
         /\ _frameBlock' = NullStamp
         /\ _submissionCompleted' = NewBarrier(1 + NumValidTasks(recordAndSubmitTasks))
         /\ threads' = NewThreads(recordAndSubmitTasks, 1)
         /\ worker' = [th \in {threads'[n] : n \in 1..Len(threads')} |-> NewWorker]
         /\ sharedData' = [t \in {u \in TaskIds : Len(recordAndSubmitTasks[u].commandGraphs) >= 2} |->
                              NewSharedData(Len(recordAndSubmitTasks[t].commandGraphs))]

\* Viewer::stopThreading up to the wake of the frame block, called from caller
StopThreadingBegin(caller) ==
    /\ _threading
    /\ _threading' = FALSE
    /\ _status' = FALSE
    /\ main' = [main EXCEPT !.pc = "wake", !.ret = caller]
    /\ frame' = IF caller = "destroy" THEN frame ELSE NoFrame

\* Viewer::setupThreading
SetupThreading ==
    /\ Idle
    /\ IF _threading
       THEN /\ StopThreadingBegin("setupThreading")
            /\ UNCHANGED sessionVars
       ELSE /\ SetupThreadingBody(threads, worker, sharedData)
            /\ UNCHANGED <<_status, main, frame>>
    /\ UNCHANGED <<_close, _frameStamp, _events, _windows, recordAndSubmitTasks, presentations>>
    /\ UNCHANGED lastAcquire

\* StopThreading without the early return: the flag is cleared in any case
StopThreadingUnguarded ==
    /\ Idle
    /\ IF _threading
       THEN StopThreadingBegin("stopThreading")
       ELSE /\ _status' = FALSE
            /\ UNCHANGED <<_threading, main, frame>>
    /\ UNCHANGED <<_close, _frameStamp, _events, _windows, recordAndSubmitTasks, presentations>>
    /\ UNCHANGED <<sessionVars, lastAcquire>>

\* Viewer::stopThreading
StopThreading ==
    /\ Idle
    /\ IF _threading
       THEN StopThreadingBegin("stopThreading")
       ELSE UNCHANGED <<_threading, _status, main, frame>>
    /\ UNCHANGED <<_close, _frameStamp, _events, _windows, recordAndSubmitTasks, presentations>>
    /\ UNCHANGED <<sessionVars, lastAcquire>>

\* Close that leaves the clearing of the activity flag to stopThreading()
CloseWithoutStatus ==
    /\ Idle
    /\ _close' = TRUE
    /\ IF _threading
       THEN StopThreadingBegin("close")
       ELSE UNCHANGED <<_status, _threading, main, frame>>
    /\ UNCHANGED <<_frameStamp, _events, _windows, recordAndSubmitTasks, presentations>>
    /\ lastAcquire' = NoAcquire
    /\ UNCHANGED sessionVars

\* Viewer::close
Close ==
    /\ Idle
    /\ _close' = TRUE
    /\ IF _threading
       THEN StopThreadingBegin("close")
       ELSE /\ _status' = FALSE
            /\ UNCHANGED <<_threading, main, frame>>
    /\ UNCHANGED <<_frameStamp, _events, _windows, recordAndSubmitTasks, presentations>>
    /\ lastAcquire' = NoAcquire
    /\ UNCHANGED sessionVars

\* StopThreadingWake without the wake of the frame block
StopThreadingWakeOmitted ==
    /\ main.pc = "wake"
    /\ main' = [main EXCEPT !.pc = "join"]
    /\ UNCHANGED <<viewerVars, sessionVars, lastAcquire, frame>>

\* stopThreading: _frameBlock->wake()
StopThreadingWake ==
    /\ main.pc = "wake"
    /\ worker' = NotifyAll(worker)
    /\ main' = [main EXCEPT !.pc = "join"]
    /\ UNCHANGED <<viewerVars, threads, _frameBlock, _submissionCompleted, sharedData>>
    /\ UNCHANGED <<lastAcquire, frame>>

\* stopThreading: the join of every thread and threads.clear(), and the rest
\* of setupThreading() when it is the caller
StopThreadingJoin ==
    /\ main.pc = "join"
    /\ \A th \in ThreadIds : worker[th].pc = "done"
    /\ main' = [main EXCEPT !.pc = IF main.ret = "destroy" THEN "deviceWaitIdle" ELSE "idle",
                            !.ret = "none"]
    /\ IF main.ret = "setupThreading"
       THEN SetupThreadingBody(<< >>, << >>, << >>)
       ELSE /\ threads' = << >>
            /\ worker' = << >>
            /\ sharedData' = << >>
            /\ UNCHANGED <<_threading, _frameBlock, _submissionCompleted>>
    /\ UNCHANGED <<_close, _status, _frameStamp, _events, _windows, recordAndSubmitTasks,
                   presentations>>
    /\ UNCHANGED <<lastAcquire, frame>>

\* SubmitInline that walks the task list from its end
SubmitInlineBackwards(stamp) ==
    [NewFrame("inline", stamp) EXCEPT
        !.returned = TRUE,
        !.starts = [t \in TaskIds |-> 1],
        !.submits = [t \in TaskIds |-> 1],
        !.submitted = [t \in TaskIds |->
                          BagOf(RecordAll(recordAndSubmitTasks[t].commandGraphs, stamp))],
        !.recorded = [t \in TaskIds |->
                         [i \in 1..Len(recordAndSubmitTasks[t].commandGraphs) |-> <<stamp>>]],
        !.order = [t \in TaskIds |-> Len(recordAndSubmitTasks) + 1 - t]]

\* RecordAndSubmitTask::submit on the calling thread, for every task in turn
SubmitInline(stamp) ==
    [NewFrame("inline", stamp) EXCEPT
        !.returned = TRUE,
        !.starts = [t \in TaskIds |-> 1],
        !.submits = [t \in TaskIds |-> 1],
        !.submitted = [t \in TaskIds |->
                          BagOf(RecordAll(recordAndSubmitTasks[t].commandGraphs, stamp))],
        !.recorded = [t \in TaskIds |->
                         [i \in 1..Len(recordAndSubmitTasks[t].commandGraphs) |-> <<stamp>>]],
        !.order = [t \in TaskIds |-> t]]

\* RecordAndSubmit that publishes the frame and returns without waiting
RecordAndSubmitNoWait ==
    /\ Idle
    /\ IF _threading
       THEN /\ _frameBlock' = _frameStamp
            /\ worker' = NotifyAll(worker)
            /\ frame' = [NewFrame("threaded", _frameStamp) EXCEPT !.returned = TRUE]
            /\ UNCHANGED main
       ELSE /\ frame' = SubmitInline(_frameStamp)
            /\ UNCHANGED <<_frameBlock, worker, main>>
    /\ UNCHANGED <<viewerVars, threads, _submissionCompleted, sharedData, lastAcquire>>

\* Viewer::recordAndSubmit up to its wait on the submission-completed barrier
RecordAndSubmit ==
    /\ Idle
    /\ IF _threading
       THEN /\ _frameBlock' = _frameStamp
            /\ worker' = NotifyAll(worker)
            /\ main' = [main EXCEPT !.pc = "submissionCompleted"]
            /\ frame' = NewFrame("threaded", _frameStamp)
       ELSE /\ frame' = SubmitInline(_frameStamp)
            /\ UNCHANGED <<_frameBlock, worker, main>>
    /\ UNCHANGED <<viewerVars, threads, _submissionCompleted, sharedData, lastAcquire>>

\* MainArrive with an orchestrator that arrives and returns without waiting
MainArriveAndDrop ==
    /\ main.pc = "submissionCompleted"
    /\ _submissionCompleted' = Arrive(_submissionCompleted, MainThread)
    /\ main' = [main EXCEPT !.pc = "idle"]
    /\ frame' = [frame EXCEPT !.returned = TRUE]
    /\ UNCHANGED <<viewerVars, threads, _frameBlock, sharedData, worker, lastAcquire>>

\* recordAndSubmit: _submissionCompleted->arrive_and_wait() of the orchestrator
MainArrive ==
    /\ main.pc = "submissionCompleted"
    /\ _submissionCompleted' = Arrive(_submissionCompleted, MainThread)
    /\ IF Releases(_submissionCompleted)
       THEN /\ main' = [main EXCEPT !.pc = "idle"]
            /\ frame' = [frame EXCEPT !.returned = TRUE]
       ELSE /\ main' = [main EXCEPT !.pc = "submissionCompleted_wait",
                                    !.phase = _submissionCompleted.phase]
            /\ UNCHANGED frame
    /\ UNCHANGED <<viewerVars, threads, _frameBlock, sharedData, worker, lastAcquire>>

\* MainRelease that returns whether or not the barrier's generation is complete
MainReleaseEarly ==
    /\ main.pc = "submissionCompleted_wait"
    /\ main' = [main EXCEPT !.pc = "idle"]
    /\ frame' = [frame EXCEPT !.returned = TRUE]
    /\ UNCHANGED <<viewerVars, sessionVars, lastAcquire>>

\* recordAndSubmit: the orchestrator is released from the barrier and returns
MainRelease ==
    /\ main.pc = "submissionCompleted_wait"
    /\ _submissionCompleted.phase # main.phase
    /\ main' = [main EXCEPT !.pc = "idle"]
    /\ frame' = [frame EXCEPT !.returned = TRUE]
    /\ UNCHANGED <<viewerVars, sessionVars, lastAcquire>>

(***************************************************************************)
(* The worker threads.                                                     *)
(***************************************************************************)
\* BodyStart with a primary thread that goes to the record-start barrier at once
BodyStartWithoutStart(th) ==
    CASE RoleOf(th) = "run" -> "submit"
      [] RoleOf(th) = "run_primary" -> "recordStart"
      [] RoleOf(th) = "run_secondary" -> "recordStart"

\* the first statement of the loop body of a worker's lambda
BodyStart(th) ==
    CASE RoleOf(th) = "run" -> "submit"
      [] RoleOf(th) = "run_primary" -> "start"
      [] RoleOf(th) = "run_secondary" -> "recordStart"

\* WaitForChange that leaves the caller's frame stamp as it was
WaitForChangeStale(th) ==
    /\ worker[th].pc = "wfc"
    /\ IF ~_status
       THEN worker' = [worker EXCEPT ![th].pc = "done"]
       ELSE IF Newer(_frameBlock, worker[th].frameStamp)
            THEN worker' = [worker EXCEPT ![th].pc = BodyStart(th)]
            ELSE worker' = [worker EXCEPT ![th].pc = "blocked"]
    /\ UNCHANGED <<viewerVars, threads, _frameBlock, _submissionCompleted, sharedData>>
    /\ UNCHANGED <<main, lastAcquire, frame>>

\* FrameBlock::wait_for_change(frameStamp) of a worker: returns false when the
\* activity flag is cleared, returns true with the published stamp when that
\* is newer than the caller's, blocks otherwise
WaitForChange(th) ==
    /\ worker[th].pc = "wfc"
    /\ IF ~_status
       THEN worker' = [worker EXCEPT ![th].pc = "done"]
       ELSE IF Newer(_frameBlock, worker[th].frameStamp)
            THEN worker' = [worker EXCEPT ![th].pc = BodyStart(th),
                                          ![th].frameStamp = _frameBlock]
            ELSE worker' = [worker EXCEPT ![th].pc = "blocked"]
    /\ UNCHANGED <<viewerVars, threads, _frameBlock, _submissionCompleted, sharedData>>
    /\ UNCHANGED <<main, lastAcquire, frame>>

\* a spurious wake-up of a thread blocked on the frame block's condition
SpuriousWake(th) ==
    /\ worker[th].pc = "blocked"
    /\ worker' = [worker EXCEPT ![th].pc = "wfc"]
    /\ UNCHANGED <<viewerVars, threads, _frameBlock, _submissionCompleted, sharedData>>
    /\ UNCHANGED <<main, lastAcquire, frame>>

\* run: viewer_task->submit(frameStamp), the recording of the task's graphs
RunSubmit(th) ==
    /\ worker[th].pc = "submit"
    /\ worker' = [worker EXCEPT
                     ![th].pc = "submitting",
                     ![th].local = RecordAll(TaskOf(th).commandGraphs, worker[th].frameStamp)]
    /\ frame' = [frame EXCEPT
                    !.starts[th[1]] = @ + 1,
                    !.recorded[th[1]] = [i \in 1..Len(TaskOf(th).commandGraphs) |->
                                            Append(@[i], worker[th].frameStamp)]]
    /\ UNCHANGED <<viewerVars, threads, _frameBlock, _submissionCompleted, sharedData>>
    /\ UNCHANGED <<main, lastAcquire>>

\* run: viewer_task->submit(frameStamp), the submission to the task's queue
RunSubmitted(th) ==
    /\ worker[th].pc = "submitting"
    /\ worker' = [worker EXCEPT ![th].pc = "drop", ![th].local = << >>]
    /\ frame' = [frame EXCEPT
                    !.submits[th[1]] = @ + 1,
                    !.submitted[th[1]] = BagOf(worker[th].local)]
    /\ UNCHANGED <<viewerVars, threads, _frameBlock, _submissionCompleted, sharedData>>
    /\ UNCHANGED <<main, lastAcquire>>

\* RunArriveAndDrop that waits for the barrier's generation like arrive_and_wait()
RunArriveAndBlock(th) ==
    /\ worker[th].pc = "drop"
    /\ _submissionCompleted' = Arrive(_submissionCompleted, th)
    /\ worker' = [worker EXCEPT
                     ![th].pc = IF Releases(_submissionCompleted) THEN "wfc"
                                ELSE "submissionCompleted_wait",
                     ![th].phase = _submissionCompleted.phase]
    /\ UNCHANGED <<viewerVars, threads, _frameBlock, sharedData>>
    /\ UNCHANGED <<main, lastAcquire, frame>>

\* run: submissionCompleted->arrive_and_drop()
RunArriveAndDrop(th) ==
    /\ worker[th].pc = "drop"
    /\ _submissionCompleted' = Arrive(_submissionCompleted, th)
    /\ worker' = [worker EXCEPT ![th].pc = "wfc"]
    /\ UNCHANGED <<viewerVars, threads, _frameBlock, sharedData>>
    /\ UNCHANGED <<main, lastAcquire, frame>>

\* run_primary: data->task->start()
PrimaryStart(th) ==
    /\ worker[th].pc = "start"
    /\ worker' = [worker EXCEPT ![th].pc = "recordStart"]
    /\ frame' = [frame EXCEPT !.starts[th[1]] = @ + 1]
    /\ UNCHANGED <<viewerVars, threads, _frameBlock, _submissionCompleted, sharedData>>
    /\ UNCHANGED <<main, lastAcquire>>

\* run_primary, run_secondary: data->recordStartBarrier->arrive_and_wait()
RecordStartArrive(th) ==
    /\ worker[th].pc = "recordStart"
    /\ LET b == sharedData[th[1]].recordStartBarrier
       IN /\ sharedData' = [sharedData EXCEPT ![th[1]].recordStartBarrier = Arrive(b, th)]
          /\ worker' = [worker EXCEPT
                           ![th].pc = IF Releases(b) THEN "record" ELSE "recordStart_wait",
                           ![th].phase = b.phase]
    /\ UNCHANGED <<viewerVars, threads, _frameBlock, _submissionCompleted>>
    /\ UNCHANGED <<main, lastAcquire, frame>>

\* run_primary, run_secondary: the release from the record-start barrier
RecordStartRelease(th) ==
    /\ worker[th].pc = "recordStart_wait"
    /\ sharedData[th[1]].recordStartBarrier.phase # worker[th].phase
    /\ worker' = [worker EXCEPT ![th].pc = "record"]
    /\ UNCHANGED <<viewerVars, threads, _frameBlock, _submissionCompleted, sharedData>>
    /\ UNCHANGED <<main, lastAcquire, frame>>

\* run_primary, run_secondary: commandGraph->record(localRecordedCommandBuffers, ...)
\* into the thread's own collection, then data->add(localRecordedCommandBuffers),
\* which appends it to the shared collection under the mutex
Record(th) ==
    /\ worker[th].pc = "record"
    /\ LET localRecordedCommandBuffers == RecordedBuffers(GraphOf(th), worker[th].frameStamp)
       IN sharedData' = [sharedData EXCEPT
                            ![th[1]].recordedCommandBuffers = @ \o localRecordedCommandBuffers]
    /\ worker' = [worker EXCEPT ![th].pc = "recordCompleted"]
    /\ frame' = [frame EXCEPT !.recorded[th[1]][th[2]] = Append(@, worker[th].frameStamp)]
    /\ UNCHANGED <<viewerVars, threads, _frameBlock, _submissionCompleted>>
    /\ UNCHANGED <<main, lastAcquire>>

\* AfterRecordCompleted that lets every thread of the group finish the task
AfterRecordCompletedAllFinish(th) == "finish"

\* AfterRecordCompleted that sends a secondary thread to the submission barrier
AfterRecordCompletedSecondaryArrives(th) ==
    IF RoleOf(th) = "run_primary" THEN "finish" ELSE "submissionCompleted"

\* where a thread of a multi-graph task continues after the record-completed barrier
AfterRecordCompleted(th) == IF RoleOf(th) = "run_primary" THEN "finish" ELSE "wfc"

\* RecordCompletedArrive that arrives at the barrier and goes on without waiting
RecordCompletedArriveNoWait(th) ==
    /\ worker[th].pc = "recordCompleted"
    /\ LET b == sharedData[th[1]].recordCompletedBarrier
       IN /\ sharedData' = [sharedData EXCEPT ![th[1]].recordCompletedBarrier = Arrive(b, th)]
          /\ worker' = [worker EXCEPT ![th].pc = AfterRecordCompleted(th),
                                       ![th].phase = b.phase]
    /\ UNCHANGED <<viewerVars, threads, _frameBlock, _submissionCompleted>>
    /\ UNCHANGED <<main, lastAcquire, frame>>

\* run_primary, run_secondary: data->recordCompletedBarrier->arrive_and_wait()
RecordCompletedArrive(th) ==
    /\ worker[th].pc = "recordCompleted"
    /\ LET b == sharedData[th[1]].recordCompletedBarrier
       IN /\ sharedData' = [sharedData EXCEPT ![th[1]].recordCompletedBarrier = Arrive(b, th)]
          /\ worker' = [worker EXCEPT
                           ![th].pc = IF Releases(b) THEN AfterRecordCompleted(th)
                                      ELSE "recordCompleted_wait",
                           ![th].phase = b.phase]
    /\ UNCHANGED <<viewerVars, threads, _frameBlock, _submissionCompleted>>
    /\ UNCHANGED <<main, lastAcquire, frame>>

\* run_primary, run_secondary: the release from the record-completed barrier
RecordCompletedRelease(th) ==
    /\ worker[th].pc = "recordCompleted_wait"
    /\ sharedData[th[1]].recordCompletedBarrier.phase # worker[th].phase
    /\ worker' = [worker EXCEPT ![th].pc = AfterRecordCompleted(th)]
    /\ UNCHANGED <<viewerVars, threads, _frameBlock, _submissionCompleted, sharedData>>
    /\ UNCHANGED <<main, lastAcquire, frame>>

\* run_primary: data->task->finish(data->recordedCommandBuffers), the call
PrimaryFinish(th) ==
    /\ worker[th].pc = "finish"
    /\ worker' = [worker EXCEPT
                     ![th].pc = "finishing",
                     ![th].local = sharedData[th[1]].recordedCommandBuffers]
    /\ UNCHANGED <<viewerVars, threads, _frameBlock, _submissionCompleted, sharedData>>
    /\ UNCHANGED <<main, lastAcquire, frame>>

\* run_primary: data->task->finish(...), the submission to the task's queue
PrimaryFinished(th) ==
    /\ worker[th].pc = "finishing"
    /\ worker' = [worker EXCEPT ![th].pc = "clear", ![th].local = << >>]
    /\ frame' = [frame EXCEPT
                    !.submits[th[1]] = @ + 1,
                    !.submitted[th[1]] = BagOf(worker[th].local)]
    /\ UNCHANGED <<viewerVars, threads, _frameBlock, _submissionCompleted, sharedData>>
    /\ UNCHANGED <<main, lastAcquire>>

\* PrimaryClear that leaves the shared collection as it is
PrimaryClearSkipped(th) ==
    /\ worker[th].pc = "clear"
    /\ worker' = [worker EXCEPT ![th].pc = "submissionCompleted"]
    /\ UNCHANGED <<viewerVars, threads, _frameBlock, _submissionCompleted, sharedData>>
    /\ UNCHANGED <<main, lastAcquire, frame>>

\* run_primary: data->recordedCommandBuffers.clear()
PrimaryClear(th) ==
    /\ worker[th].pc = "clear"
    /\ sharedData' = [sharedData EXCEPT ![th[1]].recordedCommandBuffers = << >>]
    /\ worker' = [worker EXCEPT ![th].pc = "submissionCompleted"]
    /\ UNCHANGED <<viewerVars, threads, _frameBlock, _submissionCompleted>>
    /\ UNCHANGED <<main, lastAcquire, frame>>

\* run_primary: data->submissionCompletedBarrier->arrive_and_wait()
PrimaryArrive(th) ==
    /\ worker[th].pc = "submissionCompleted"
    /\ _submissionCompleted' = Arrive(_submissionCompleted, th)
    /\ worker' = [worker EXCEPT
                     ![th].pc = IF Releases(_submissionCompleted) THEN "wfc"
                                ELSE "submissionCompleted_wait",
                     ![th].phase = _submissionCompleted.phase]
    /\ UNCHANGED <<viewerVars, threads, _frameBlock, sharedData>>
    /\ UNCHANGED <<main, lastAcquire, frame>>

\* PrimaryRelease that looks at the activity flag when the barrier releases it
PrimaryReleaseChecksStatus(th) ==
    /\ worker[th].pc = "submissionCompleted_wait"
    /\ _submissionCompleted.phase # worker[th].phase
    /\ worker' = [worker EXCEPT ![th].pc = IF _status THEN "wfc" ELSE "done"]
    /\ UNCHANGED <<viewerVars, threads, _frameBlock, _submissionCompleted, sharedData>>
    /\ UNCHANGED <<main, lastAcquire, frame>>

\* run_primary: the release from the submission-completed barrier
PrimaryRelease(th) ==
    /\ worker[th].pc = "submissionCompleted_wait"
    /\ _submissionCompleted.phase # worker[th].phase
    /\ worker' = [worker EXCEPT ![th].pc = "wfc"]
    /\ UNCHANGED <<viewerVars, threads, _frameBlock, _submissionCompleted, sharedData>>
    /\ UNCHANGED <<main, lastAcquire, frame>>

\* one step a worker thread takes when it is scheduled
WorkerRun(th) ==
    \/ WaitForChange(th)
    \/ RunSubmit(th)
    \/ RunSubmitted(th)
    \/ RunArriveAndDrop(th)
    \/ PrimaryStart(th)
    \/ RecordStartArrive(th)
    \/ RecordStartRelease(th)
    \/ Record(th)
    \/ RecordCompletedArrive(th)
    \/ RecordCompletedRelease(th)
    \/ PrimaryFinish(th)
    \/ PrimaryFinished(th)
    \/ PrimaryClear(th)
    \/ PrimaryArrive(th)
    \/ PrimaryRelease(th)

\* one step of a worker thread
WorkerStep(th) ==
    \/ WorkerRun(th)
    \/ SpuriousWake(th)

\* one step of the orchestrator thread
MainStep ==
    \/ AssignRecordAndSubmitTaskAndPresentation
    \/ Advance
    \/ SetupThreading
    \/ StopThreading
    \/ Close
    \/ StopThreadingWake
    \/ StopThreadingJoin
    \/ RecordAndSubmit
    \/ MainArrive
    \/ MainRelease

Next ==
    \/ MainStep
    \/ \E th \in ThreadIds : WorkerStep(th)

Spec == Init /\ [][Next]_vars

\* some worker thread that can run takes a step
WorkersRun == \E th \in ThreadIds : WorkerRun(th)

\* the scheduler with threads that keep running: a worker that can take a step
\* of its lambda is scheduled, and so is the orchestrator inside stopThreading();
\* nothing is assumed about spurious wake-ups
SpecLive ==
    /\ Spec
    /\ WF_vars(WorkersRun)
    /\ WF_vars(StopThreadingWake)
    /\ WF_vars(StopThreadingJoin)

\* the thread ids a session can have: task t has at most MaxGraphs + 1 - t graphs
PossibleThreads == {th \in (1..MaxGraphs) \X (1..MaxGraphs) : th[1] + th[2] <= MaxGraphs + 1}

\* the scheduler with every thread scheduled fairly: each worker thread that
\* can take a step of its lambda takes it, whatever the other workers do, and
\* the orchestrator proceeds inside stopThreading() and recordAndSubmit()
SpecFair ==
    /\ SpecLive
    /\ \A th \in PossibleThreads : WF_vars(th \in ThreadIds /\ WorkerRun(th))
    /\ WF_vars(MainArrive)
    /\ WF_vars(MainRelease)

(***************************************************************************)
(* The frame life cycle of a viewer with windows and no threading session. *)
(***************************************************************************)
\* Viewer::addWindow
AddWindow ==
    /\ Idle
    /\ Len(_windows) < MaxWindows
    /\ _windows' = Append(_windows, [valid |-> TRUE, visible |-> TRUE, device |-> 1])
    /\ UNCHANGED <<_close, _status, _threading, _frameStamp, _events, recordAndSubmitTasks,
                   presentations>>
    /\ lastAcquire' = NoAcquire
    /\ UNCHANGED <<sessionVars, main, frame>>

\* the windowing system closes, hides or shows a window between two calls
WindowChange ==
    /\ Idle
    /\ \E i \in 1..Len(_windows), valid \in BOOLEAN, visible \in BOOLEAN :
        /\ (_windows[i].valid = FALSE) => (valid = FALSE)
        /\ _windows' = [_windows EXCEPT ![i].valid = valid, ![i].visible = visible]
    /\ UNCHANGED <<_close, _status, _threading, _frameStamp, _events, recordAndSubmitTasks,
                   presentations>>
    /\ lastAcquire' = NoAcquire
    /\ UNCHANGED <<sessionVars, main, frame>>

NextFrame ==
    \/ AddWindow
    \/ WindowChange
    \/ Advance
    \/ AdvanceToNextFrame
    \/ AcquireNextImage
    \/ AdvanceToNextFrameReturn
    \/ Active
    \/ DeviceWaitIdle
    \/ Close

SpecFrame == Init /\ [][NextFrame]_vars

(***************************************************************************)
(* The event queue of a viewer whose windows stay valid and visible: every *)
(* operation that writes _events, pollEvents() of the application included.*)
(***************************************************************************)
NextEvents ==
    \/ AddWindow
    \/ Advance
    \/ AdvanceToNextFrame
    \/ AcquireNextImage
    \/ AdvanceToNextFrameReturn
    \/ PollEvents

SpecEvents == Init /\ [][NextEvents]_vars

(***************************************************************************)
(* The destruction of a viewer with windows, tasks and a threading session.*)
(***************************************************************************)
\* Viewer::~Viewer up to the wake of the frame block in stopThreading(), or up
\* to deviceWaitIdle() when no threading session is active
Destroy ==
    /\ Idle
    /\ IF _threading
       THEN StopThreadingBegin("destroy")
       ELSE /\ main' = [main EXCEPT !.pc = "deviceWaitIdle"]
            /\ UNCHANGED <<_threading, _status, frame>>
    /\ UNCHANGED <<_close, _frameStamp, _events, _windows, recordAndSubmitTasks, presentations>>
    /\ UNCHANGED <<sessionVars, lastAcquire>>

NextDestroy ==
    \/ Next
    \/ AddWindow
    \/ Destroy
    \/ DeviceWaitIdle

SpecDestroy == Init /\ [][NextDestroy]_vars

(***************************************************************************)
(* assignRecordAndSubmitTaskAndPresentation on command graphs of several   *)
(* devices, queue families, present families and windows.                  *)
(***************************************************************************)
\* kinds of command graph that differ in device, in queue family, in present
\* family or in window only
AnyCommandGraphKinds ==
    <<[device |-> 1, queueFamily |-> 0, presentFamily |-> -1, window |-> 1],
      [device |-> 1, queueFamily |-> 0, presentFamily |-> 0, window |-> 1],
      [device |-> 1, queueFamily |-> 0, presentFamily |-> 0, window |-> 2],
      [device |-> 1, queueFamily |-> 0, presentFamily |-> 1, window |-> 1],
      [device |-> 1, queueFamily |-> 1, presentFamily |-> 0, window |-> 1],
      [device |-> 2, queueFamily |-> 0, presentFamily |-> 0, window |-> 2]>>

\* up to MaxGraphs command graphs of these kinds in any order, each identified
\* by the number of its kind and its position in the input
AnyCommandGraphInputs ==
    UNION {{[i \in 1..n |-> CommandGraph(<<ks[i], i>>, AnyCommandGraphKinds[ks[i]])] :
            ks \in [1..n -> DOMAIN AnyCommandGraphKinds]} : n \in 0..MaxGraphs}

\* Viewer::assignRecordAndSubmitTaskAndPresentation on such an input
AssignAny ==
    /\ Idle
    /\ recordAndSubmitTasks = << >>
    /\ threads = << >>
    /\ \E cgs \in AnyCommandGraphInputs :
        /\ recordAndSubmitTasks' = recordAndSubmitTasks \o AssignedTasks(cgs)
        /\ presentations' =
               presentations \o AssignedPresentations(cgs, Len(recordAndSubmitTasks) + 1)
    /\ UNCHANGED <<_close, _status, _threading, _frameStamp, _events, _windows>>
    /\ UNCHANGED <<sessionVars, main, lastAcquire, frame>>

NextAssign == AssignAny

SpecAssign == Init /\ [][NextAssign]_vars

(***************************************************************************)
(* The driven frame loop with present(): advance, recordAndSubmit, present.*)
(***************************************************************************)
\* kinds of command graph that render to the same window through different
\* queue families
WindowCommandGraphKinds ==
    <<[device |-> 1, queueFamily |-> 0, presentFamily |-> 0, window |-> 1],
      [device |-> 1, queueFamily |-> 1, presentFamily |-> 0, window |-> 1]>>

\* up to MaxGraphs command graphs of these kinds, identified like those of
\* CommandGraphInputs
WindowCommandGraphInputs ==
    UNION {{[i \in 1..n |->
                CommandGraph(<<ks[i], Cardinality({j \in 1..i : ks[j] = ks[i]})>>,
                             WindowCommandGraphKinds[ks[i]])] :
            ks \in [1..n -> DOMAIN WindowCommandGraphKinds]} : n \in 0..MaxGraphs}

\* Viewer::assignRecordAndSubmitTaskAndPresentation on such an input
AssignWindow ==
    /\ Idle
    /\ recordAndSubmitTasks = << >>
    /\ threads = << >>
    /\ \E cgs \in WindowCommandGraphInputs :
        /\ recordAndSubmitTasks' = recordAndSubmitTasks \o AssignedTasks(cgs)
        /\ presentations' =
               presentations \o AssignedPresentations(cgs, Len(recordAndSubmitTasks) + 1)
    /\ UNCHANGED <<_close, _status, _threading, _frameStamp, _events, _windows>>
    /\ UNCHANGED <<sessionVars, main, lastAcquire, frame>>

\* Viewer::present, called by the frame loop when recordAndSubmit() has
\* returned (the task list being the one of that call): present() of every
\* Presentation, which waits for its semaphores and presents its windows
Present ==
    /\ Idle
    /\ frame.mode # "none"
    /\ frame.returned
    /\ DOMAIN frame.submits = TaskIds
    /\ frame.presented = << >>
    /\ frame' = [frame EXCEPT
                    !.presented = [p \in 1..Len(presentations) |->
                                      [waitSemaphores |-> presentations[p].waitSemaphores,
                                       windows |-> presentations[p].windows]]]
    /\ UNCHANGED <<viewerVars, sessionVars, main, lastAcquire>>

NextPresent ==
    \/ Next
    \/ AssignWindow
    \/ Present

SpecPresent == Init /\ [][NextPresent]_vars

(***************************************************************************)
(* The scheduler of a viewer whose task list also holds tasks without a    *)
(* command graph.                                                          *)
(***************************************************************************)
\* a RecordAndSubmitTask that was given no command graph
EmptyTask ==
    [device |-> 1, queue |-> <<1, 0>>, commandGraphs |-> << >>, windows |-> {},
     signalSemaphores |-> << >>]

\* the tasks of a list that own no command graph
EmptyTasks(tasks) == {t \in 1..Len(tasks) : Len(tasks[t].commandGraphs) = 0}

\* the application appends a task without a command graph to
\* Viewer::recordAndSubmitTasks, outside a threading session
AddEmptyTask ==
    /\ Idle
    /\ threads = << >>
    /\ ~_threading
    /\ Cardinality(EmptyTasks(recordAndSubmitTasks)) < MaxEmptyTasks
    /\ recordAndSubmitTasks' = Append(recordAndSubmitTasks, EmptyTask)
    /\ frame' = NoFrame
    /\ UNCHANGED <<_close, _status, _threading, _frameStamp, _events, _windows, presentations>>
    /\ UNCHANGED <<sessionVars, main, lastAcquire>>

NextEmpty ==
    \/ Next
    \/ AddEmptyTask

SpecEmpty == Init /\ [][NextEmpty]_vars

(***************************************************************************)
(* compile(): the compile traversals of the devices, their transfers and   *)
(* the database pagers of the tasks.                                       *)
(***************************************************************************)
\* a task with its databasePager member set (0: null)
WithPager(task, databasePager) ==
    [f \in DOMAIN task \cup {"databasePager"} |->
        IF f = "databasePager" THEN databasePager ELSE task[f]]

\* Viewer::assignRecordAndSubmitTaskAndPresentation(in_commandGraphs, databasePager)
AssignPager ==
    /\ Idle
    /\ main.compile.stage = "none"
    /\ recordAndSubmitTasks = << >>
    /\ \E cgs \in AnyCommandGraphInputs, databasePager \in {0, 1} :
        /\ recordAndSubmitTasks' =
               [t \in 1..Len(AssignedTasks(cgs)) |-> WithPager(AssignedTasks(cgs)[t], databasePager)]
        /\ presentations' = AssignedPresentations(cgs, 1)
    /\ UNCHANGED <<_close, _status, _threading, _frameStamp, _events, _windows>>
    /\ UNCHANGED <<sessionVars, main, lastAcquire, frame>>

\* the application appends a task without a command graph, with or without a
\* database pager, to Viewer::recordAndSubmitTasks
AddPagerTask ==
    /\ Idle
    /\ main.compile.stage = "none"
    /\ Cardinality(EmptyTasks(recordAndSubmitTasks)) < MaxEmptyTasks
    /\ \E databasePager \in {0} \cup PagerIds :
           recordAndSubmitTasks' =
               Append(recordAndSubmitTasks, WithPager(EmptyTask, databasePager))
    /\ UNCHANGED <<_close, _status, _threading, _frameStamp, _events, _windows, presentations>>
    /\ UNCHANGED <<sessionVars, main, lastAcquire, frame>>

\* the keys of deviceResourceMap: the devices of the command graphs of the tasks
DeviceResourceMap(tasks) ==
    {tasks[t].commandGraphs[i].device :
        <<t, i>> \in {x \in (1..Len(tasks)) \X (1..MaxGraphs) : x[2] <= Len(tasks[x[1]].commandGraphs)}}

\* the first key of a set of devices in the iteration order of the map
FirstDevice(ds) == CHOOSE d \in ds : \A o \in ds : d <= o

\* compile(): the early return, or the collection of the devices and the
\* creation of a compile traversal for each of them
Compile ==
    /\ Idle
    /\ main.compile.stage = "none"
    /\ IF recordAndSubmitTasks = << >>
       THEN main' = [main EXCEPT !.compile.stage = "returned"]
       ELSE main' = [main EXCEPT !.pc = "compile",
                                 !.compile.stage = "compile",
                                 !.compile.devices = DeviceResourceMap(recordAndSubmitTasks)]
    /\ UNCHANGED <<viewerVars, sessionVars, lastAcquire, frame>>

\* compile(): the body of the loop that creates the Vulkan objects, for the
\* next task: every command graph accepts the compile traversal of its device,
\* and the task's pager is given the traversal of the first graph's device
CompileTask ==
    /\ main.pc = "compile"
    /\ main.compile.stage = "compile"
    /\ LET t == main.compile.next
           task == recordAndSubmitTasks[t]
           cgs == task.commandGraphs
       IN main' = [main EXCEPT
                      !.compile.compiled = @ \cup {cgs[i].id : i \in 1..Len(cgs)},
                      !.compile.pagers =
                          IF task.databasePager # 0 /\ Len(cgs) >= 1
                          THEN [@ EXCEPT ![task.databasePager].compileTraversal = cgs[1].device]
                          ELSE @,
                      !.compile.next = IF t = Len(recordAndSubmitTasks) THEN 1 ELSE t + 1,
                      !.compile.stage =
                          IF t < Len(recordAndSubmitTasks) THEN "compile"
                          ELSE IF main.compile.devices = {} THEN "start" ELSE "dispatch"]
    /\ UNCHANGED <<viewerVars, sessionVars, lastAcquire, frame>>

\* compile(): context.dispatch() of the next device
Dispatch ==
    /\ main.pc = "compile"
    /\ main.compile.stage = "dispatch"
    /\ LET d == FirstDevice(main.compile.devices \ main.compile.dispatched)
       IN main' = [main EXCEPT
                      !.compile.dispatched = @ \cup {d},
                      !.compile.stage = IF main.compile.dispatched \cup {d} = main.compile.devices
                                        THEN "wait" ELSE "dispatch"]
    /\ UNCHANGED <<viewerVars, sessionVars, lastAcquire, frame>>

\* compile(): context.waitForCompletion() of the next device
WaitForCompletion ==
    /\ main.pc = "compile"
    /\ main.compile.stage = "wait"
    /\ LET d == FirstDevice(main.compile.devices \ main.compile.completed)
       IN main' = [main EXCEPT
                      !.compile.completed = @ \cup {d},
                      !.compile.stage = IF main.compile.completed \cup {d} = main.compile.devices
                                        THEN "start" ELSE "wait"]
    /\ UNCHANGED <<viewerVars, sessionVars, lastAcquire, frame>>

\* compile(): the body of the loop that starts the pagers, for the next task;
\* compile() returns after the last task
StartPager ==
    /\ main.pc = "compile"
    /\ main.compile.stage = "start"
    /\ LET t == main.compile.next
           task == recordAndSubmitTasks[t]
       IN main' = [main EXCEPT
                      !.compile.pagers =
                          IF task.databasePager # 0
                          THEN [@ EXCEPT ![task.databasePager].started = 1]
                          ELSE @,
                      !.compile.next = t + 1,
                      !.compile.stage = IF t = Len(recordAndSubmitTasks) THEN "returned" ELSE "start",
                      !.pc = IF t = Len(recordAndSubmitTasks) THEN "idle" ELSE "compile"]
    /\ UNCHANGED <<viewerVars, sessionVars, lastAcquire, frame>>

NextCompile ==
    \/ AssignPager
    \/ AddPagerTask
    \/ Compile
    \/ CompileTask
    \/ Dispatch
    \/ WaitForCompletion
    \/ StartPager

SpecCompile == Init /\ [][NextCompile]_vars

(***************************************************************************)
(* Properties of the threaded scheduler.                                   *)
(***************************************************************************)
\* the tasks that own at least one command graph
ValidTasks == {t \in TaskIds : Len(recordAndSubmitTasks[t].commandGraphs) >= 1}

\* the tasks that own several command graphs
MultiGraphTasks == {t \in TaskIds : Len(recordAndSubmitTasks[t].commandGraphs) >= 2}

\* a recordAndSubmit() round of the threading session is in progress or has returned
ThreadedRound == frame.mode = "threaded"

\* C1: in threaded mode, for the frame published by recordAndSubmit(), every
\* task submits to its queue at most once, a submission is made only when every
\* command graph of the task has recorded exactly once, for the published frame
\* stamp, and when recordAndSubmit() has returned every task with at least one
\* command graph has submitted exactly once
C1_SubmitOnceAfterRecording ==
    ThreadedRound =>
        \A t \in TaskIds :
            /\ frame.submits[t] <= 1
            /\ frame.submits[t] = 1 =>
                   \A i \in 1..Len(recordAndSubmitTasks[t].commandGraphs) :
                       frame.recorded[t][i] = <<frame.stamp>>
            /\ \A i \in 1..Len(recordAndSubmitTasks[t].commandGraphs) :
                   Len(frame.recorded[t][i]) <= 1
            /\ (frame.returned /\ t \in ValidTasks) => frame.submits[t] = 1

\* C1 witness: the round of frame 1 has returned with a multi-graph task and a
\* single-graph task that have each submitted once
C1_Witness ==
    /\ ThreadedRound
    /\ frame.returned
    /\ frame.stamp = <<1>>
    /\ \E t \in MultiGraphTasks : frame.submits[t] = 1
    /\ \E t \in ValidTasks \ MultiGraphTasks : frame.submits[t] = 1

\* the scenario of two tasks: one with a command graph that records 3 buffers,
\* one with two command graphs that record 2 and 4 buffers
ScenarioTaskA(t) ==
    /\ Len(recordAndSubmitTasks[t].commandGraphs) = 1
    /\ NumBuffers(recordAndSubmitTasks[t].commandGraphs[1].id) = 3

ScenarioTaskB(t) ==
    /\ Len(recordAndSubmitTasks[t].commandGraphs) = 2
    /\ NumBuffers(recordAndSubmitTasks[t].commandGraphs[1].id) = 2
    /\ NumBuffers(recordAndSubmitTasks[t].commandGraphs[2].id) = 4

\* C2: in threaded mode recordAndSubmit() has returned only when every task
\* with at least one command graph has completed its submission of the
\* published frame; in the scenario, task A has then submitted 3 buffers once
\* and task B 6 buffers once
C2_ReturnAfterAllSubmitted ==
    (ThreadedRound /\ frame.returned) =>
        \A t \in ValidTasks :
            /\ frame.submits[t] = 1
            /\ frame.starts[t] = 1
            /\ ScenarioTaskA(t) => BagCardinality(frame.submitted[t]) = 3
            /\ ScenarioTaskB(t) => BagCardinality(frame.submitted[t]) = 6

\* C2 witness: recordAndSubmit() has returned in the scenario of task A and task B
C2_Witness ==
    /\ ThreadedRound
    /\ frame.returned
    /\ Len(recordAndSubmitTasks) = 2
    /\ \E a \in TaskIds : ScenarioTaskA(a) /\ BagCardinality(frame.submitted[a]) = 3
    /\ \E b \in TaskIds : ScenarioTaskB(b) /\ BagCardinality(frame.submitted[b]) = 6
    /\ _submissionCompleted.required = 3

\* C3: the collection the primary thread of a multi-graph task passes to
\* finish() holds exactly the buffers its command graphs recorded for the
\* frame, each once: none lost, none twice, none of an earlier frame
C3_FinishGetsEachBufferOnce ==
    \A th \in ThreadIds :
        worker[th].pc = "finishing" =>
            LET recorded == RecordAll(TaskOf(th).commandGraphs, worker[th].frameStamp)
            IN /\ BagOf(worker[th].local) = BagOf(recorded)
               /\ Len(worker[th].local) = Len(recorded)
               /\ \A n \in 1..Len(worker[th].local) : worker[th].local[n][2] = frame.stamp

\* C3 witness: the primary thread of a task with three command graphs is in
\* finish() for frame 1, with the 9 buffers of its graphs
C3_Witness ==
    \E th \in ThreadIds :
        /\ worker[th].pc = "finishing"
        /\ worker[th].frameStamp = <<1>>
        /\ Len(TaskOf(th).commandGraphs) = 3
        /\ Len(worker[th].local) = 9

\* C4: after close() has cleared the activity flag and entered stopThreading(),
\* stopThreading() terminates: every worker thread exits its loop and is
\* joined, and close() returns with no thread left
C4_StopThreadingTerminates ==
    (main.pc = "wake" /\ main.ret = "close") ~> (Idle /\ _close /\ threads = << >>)

\* C4 witness: close() was called with worker threads blocked in
\* wait_for_change; they have all left their loop and the join can complete
C4_Witness ==
    /\ main.pc = "join"
    /\ main.ret = "close"
    /\ Len(threads) >= 2
    /\ \A th \in ThreadIds : worker[th].pc = "done"
    /\ \E th \in ThreadIds : worker[th].frameStamp = _frameBlock /\ _frameBlock # NullStamp

\* the barriers of the session: the submission-completed barrier and the two
\* barriers of every multi-graph task
BarrierNames ==
    {<<"submissionCompleted", 0>>}
        \cup ({"recordStart", "recordCompleted"} \X DOMAIN sharedData)

\* the barrier with a name
BarrierNamed(n) ==
    CASE n[1] = "submissionCompleted" -> _submissionCompleted
      [] n[1] = "recordStart" -> sharedData[n[2]].recordStartBarrier
      [] n[1] = "recordCompleted" -> sharedData[n[2]].recordCompletedBarrier

\* the threads of the session and the orchestrator
Parties == ThreadIds \cup {MainThread}

\* where a party is, and the generation it noted on its last arrive_and_wait()
PcOf(p) == IF p = MainThread THEN main.pc ELSE worker[p].pc
PhaseOf(p) == IF p = MainThread THEN main.phase ELSE worker[p].phase

\* where a party blocked in arrive_and_wait() is
WaitPcs == {"submissionCompleted_wait", "recordStart_wait", "recordCompleted_wait"}

\* the party is blocked in arrive_and_wait()
Waiting(pc) == pc \in WaitPcs

\* the barrier on which party p waits when it is at pc
BarrierAt(p, pc) ==
    CASE pc = "submissionCompleted_wait" -> _submissionCompleted
      [] pc = "recordStart_wait" -> sharedData[p[1]].recordStartBarrier
      [] pc = "recordCompleted_wait" -> sharedData[p[1]].recordCompletedBarrier

\* a step of the threading session, which keeps its threads and barriers
SessionStep ==
    /\ threads # << >>
    /\ threads' = threads
    /\ ~(main.pc = "join" /\ main'.pc = "idle")

\* what a step does to one barrier: the generation advances only on the arrival
\* that makes the number of arrivals of the generation the required number
GenerationStep(n) ==
    LET b == BarrierNamed(n)
        c == BarrierNamed(n)'
    IN /\ c.required = b.required
       /\ c.phase # b.phase =>
              /\ c.phase = b.phase + 1
              /\ b.arrived + 1 = b.required
              /\ Cardinality(b.arrivers) + 1 = b.required
              /\ c.arrived = 0
       /\ c.phase = b.phase => c.arrived \in {b.arrived, b.arrived + 1}

\* what a step does to one party: a party that starts to wait has arrived in
\* the current generation and did not complete it, a party that waits belongs
\* to the generation in progress or to the one just completed, and it leaves
\* its wait only when the generation it arrived in is completed
PartyStep(p) ==
    LET pc == PcOf(p)
        pc2 == PcOf(p)'
    IN /\ \A w \in WaitPcs :
              (~Waiting(pc) /\ pc2 = w) =>
              LET b == BarrierAt(p, w)
                  c == BarrierAt(p, w)'
              IN /\ PhaseOf(p)' = b.phase
                 /\ c.phase = b.phase
                 /\ p \notin b.arrivers
                 /\ c.arrivers = b.arrivers \cup {p}
                 /\ c.arrived = b.arrived + 1
       /\ Waiting(pc) =>
              LET b == BarrierAt(p, pc)
              IN /\ \/ PhaseOf(p) = b.phase /\ p \in b.arrivers
                    \/ PhaseOf(p) + 1 = b.phase
                 /\ pc2 # pc => PhaseOf(p) + 1 = b.phase

\* a thread that calls arrive_and_drop() counts as an arrival and goes on
\* without waiting
DropStep(th) ==
    (worker[th].pc = "drop" /\ worker'[th].pc # "drop") =>
        /\ worker'[th].pc = "wfc"
        /\ \/ _submissionCompleted'.phase = _submissionCompleted.phase + 1
           \/ /\ _submissionCompleted'.arrived = _submissionCompleted.arrived + 1
              /\ _submissionCompleted'.arrivers = _submissionCompleted.arrivers \cup {th}

\* C5: the waiters of a generation of a barrier are released once, and only
\* when exactly the required number of arrivals of that generation has
\* occurred, whether the arrivals wait or drop; a dropping caller never blocks
C5_ReleaseAfterAllArrivals ==
    [][SessionStep =>
          /\ \A n \in BarrierNames : GenerationStep(n)
          /\ \A p \in Parties : PartyStep(p)
          /\ \A th \in ThreadIds : DropStep(th)]_vars

\* C5 witness: the submission-completed barrier for three parties has completed
\* a generation with arrivals that dropped and an arrival that waits, and a
\* worker that dropped in the next generation is back in wait_for_change while
\* the orchestrator waits
C5_Witness ==
    /\ _submissionCompleted.required = 3
    /\ _submissionCompleted.phase = 1
    /\ main.pc = "submissionCompleted_wait"
    /\ main.phase = 1
    /\ \E th \in ThreadIds :
           /\ RoleOf(th) = "run"
           /\ th \in _submissionCompleted.arrivers
           /\ worker[th].pc = "blocked"
    /\ \E th \in ThreadIds : RoleOf(th) = "run_primary"

\* C6: for every barrier of the scheduler the number of arrivals of the current
\* generation stays below the required number (the arrival that reaches it
\* starts the next generation with no arrival), and the arrivals of a
\* generation are made by different threads
C6_BarrierCounts ==
    \A n \in BarrierNames :
        LET b == BarrierNamed(n)
        IN /\ b.required >= 1
           /\ b.arrived >= 0
           /\ b.arrived < b.required
           /\ Cardinality(b.arrivers) = b.arrived
           /\ b.arrivers \subseteq ThreadIds \cup {MainThread}
           /\ b.phase >= 0

\* C6 witness: the three barriers of a session have each completed the
\* generations of two frames and are empty again
C6_Witness ==
    /\ _submissionCompleted.phase = 2
    /\ _submissionCompleted.arrived = 0
    /\ \E t \in DOMAIN sharedData :
           /\ sharedData[t].recordStartBarrier.phase = 2
           /\ sharedData[t].recordStartBarrier.arrived = 0
           /\ sharedData[t].recordCompletedBarrier.phase = 2
           /\ sharedData[t].recordCompletedBarrier.arrived = 0
           /\ sharedData[t].recordCompletedBarrier.required = 3

\* a worker's wait_for_change() returns true: the worker enters its loop body
ReturnsTrue(th) == worker[th].pc \in {"wfc", "blocked"} /\ worker'[th].pc = BodyStart(th)

\* a worker's wait_for_change() returns false: the worker leaves its loop
ReturnsFalse(th) == worker[th].pc \in {"wfc", "blocked"} /\ worker'[th].pc = "done"

\* the published stamp has a greater frame count than the stamp s of a caller
\* (a caller without a stamp takes any published stamp)
PublishedAfter(s) ==
    /\ _frameBlock # NullStamp
    /\ s # NullStamp => FrameCount(_frameBlock) > FrameCount(s)

\* C7: wait_for_change(s) returns true only when the published stamp has a
\* greater frame count than s and the activity flag is set, and s is then the
\* published stamp; a call that ends while such a stamp is published and the
\* flag is set returns true; once the flag is cleared the call returns false
\* whether or not a newer stamp is published, and never true
C7_WaitForChange ==
    [][SessionStep =>
          \A th \in ThreadIds :
              /\ ReturnsTrue(th) =>
                     /\ _status
                     /\ PublishedAfter(worker[th].frameStamp)
                     /\ worker'[th].frameStamp = _frameBlock
              /\ ReturnsFalse(th) => ~_status /\ worker'[th].frameStamp = worker[th].frameStamp
              /\ (worker[th].pc = "wfc" /\ worker'[th].pc # "wfc") =>
                     /\ ~_status => ReturnsFalse(th)
                     /\ (_status /\ PublishedAfter(worker[th].frameStamp)) => ReturnsTrue(th)
                     /\ (_status /\ ~PublishedAfter(worker[th].frameStamp)) =>
                            worker'[th].pc = "blocked"]_vars

\* C7 witness: a worker has left its loop on the cleared flag although a stamp
\* newer than its own is published
C7_Witness ==
    \E th \in ThreadIds :
        /\ worker[th].pc = "done"
        /\ ~_status
        /\ PublishedAfter(worker[th].frameStamp)

\* the threads of one task with K >= 2 command graphs: K threads, the first
\* for the first graph as primary, the others as secondary
PrimarySecondaryLayout(t) ==
    LET K == Len(recordAndSubmitTasks[t].commandGraphs)
        of == {th \in ThreadIds : th[1] = t}
    IN /\ Cardinality(of) = K
       /\ Cardinality({th \in of : RoleOf(th) = "run_primary"}) = 1
       /\ Cardinality({th \in of : RoleOf(th) = "run_secondary"}) = K - 1
       /\ \A th \in of : RoleOf(th) = "run_primary" <=> th[2] = 1

\* C8: the thread layout of a threading session is a function of the task
\* shapes: with 0 or 1 command graphs in total there is no thread and no
\* session; a session has one thread per command graph and no other thread,
\* so K threads with 1 primary and K-1 secondary for a single task of K >= 2
\* graphs, and one thread per task for several single-graph tasks
C8_ThreadLayout ==
    LET total == SumGraphs(recordAndSubmitTasks)
    IN /\ total <= 1 => (threads = << >> /\ ~_threading)
       /\ _threading =>
              /\ total >= 2
              /\ Len(threads) = total
              /\ Cardinality(ThreadIds) = total
              /\ (Len(recordAndSubmitTasks) = 1) =>
                     /\ Len(threads) = Len(recordAndSubmitTasks[1].commandGraphs)
                     /\ PrimarySecondaryLayout(1)
              /\ (\A t \in TaskIds : Len(recordAndSubmitTasks[t].commandGraphs) = 1) =>
                     /\ Len(threads) = Len(recordAndSubmitTasks)
                     /\ \A t \in TaskIds :
                            Cardinality({th \in ThreadIds : th[1] = t /\ RoleOf(th) = "run"}) = 1
              /\ \A t \in MultiGraphTasks : PrimarySecondaryLayout(t)

\* C8 witness: setupThreading() has started the three threads of a single task
\* with three command graphs
C8_Witness ==
    /\ _threading
    /\ Len(recordAndSubmitTasks) = 1
    /\ Len(recordAndSubmitTasks[1].commandGraphs) = 3
    /\ Len(threads) = 3
    /\ \A th \in ThreadIds : worker[th].pc = "wfc"

(***************************************************************************)
(* Properties of the frame life cycle.                                     *)
(***************************************************************************)
\* the step creates a frame stamp whose frame count is the previous one plus 1
\* (any frame count when there was no stamp before)
FrameCountBumped ==
    /\ _frameStamp' # NullStamp
    /\ _frameStamp # NullStamp => FrameCount(_frameStamp') = FrameCount(_frameStamp) + 1

\* an advance() or advanceToNextFrame() called on an active viewer returns
ReturnsWhileActive ==
    \/ Advance /\ ViewerIsActive(_close, _windows)
    \/ AdvanceToNextFrameReturn

\* C9 as stated: every advance() or advanceToNextFrame() made while the viewer
\* is active (not closed, all windows valid) makes the frame count the previous
\* frame count plus 1
C9_BumpWhileActive == [][ReturnsWhileActive => FrameCountBumped]_vars

\* C9 amended: every advance(), and every advanceToNextFrame() that returns
\* true, makes the frame count the previous frame count plus 1 (0 when there
\* was no stamp), and an advanceToNextFrame() that returns false leaves the
\* frame stamp as it was
C9_BumpOnSuccess ==
    [][/\ Advance \/ (AdvanceToNextFrameReturn /\ lastAcquire'.ret)
          => FrameCountBumped /\ (_frameStamp = NullStamp => _frameStamp' = <<0>>)
       /\ (AdvanceToNextFrame \/ (AdvanceToNextFrameReturn /\ ~lastAcquire'.ret))
          => _frameStamp' = _frameStamp]_vars

\* C9 witness: an advanceToNextFrame() on an active viewer with a visible
\* window has returned true and produced the stamp of frame 1
C9_Witness ==
    /\ _frameStamp = <<1>>
    /\ lastAcquire.ret
    /\ \E i \in 1..Len(lastAcquire.windows) : lastAcquire.windows[i].result = "VK_SUCCESS"

\* C10 as stated: when acquireNextImage() fails with an unrecoverable result on
\* any visible window, advanceToNextFrame() returns false
C10_UnrecoverableFails ==
    (/\ lastAcquire.acquired
     /\ Idle
     /\ \E i \in 1..Len(lastAcquire.windows) : lastAcquire.windows[i].result \in Unrecoverable)
    => ~lastAcquire.ret

\* advanceToNextFrame() has called acquireNextFrame() and has returned
AcquireReturned == lastAcquire.acquired /\ Idle

\* C11: a visible window whose acquireNextImage() returns a recoverable result
\* is resized and asked again until it succeeds or fails unrecoverably (one
\* resize() per recoverable result, the last result never a recoverable one);
\* every visible window is asked whatever happened on the windows before it,
\* and a frame whose visible windows all ended with a success is active
C11_RecoverableRetried ==
    lastAcquire.acquired =>
        /\ \A i \in 1..Len(lastAcquire.windows) :
               LET w == lastAcquire.windows[i]
               IN /\ _windows[i].visible <=> w.result # "skipped"
                  /\ _windows[i].visible =>
                         /\ w.result \in {"VK_SUCCESS"} \cup Unrecoverable
                         /\ w.calls >= 1
                         /\ w.resizes = w.calls - 1
        /\ AcquireReturned =>
               /\ Len(lastAcquire.windows) = Len(_windows)
               /\ (\A i \in 1..Len(_windows) :
                       lastAcquire.windows[i].result \in {"VK_SUCCESS", "skipped"})
                      => lastAcquire.ret

\* C11 witness: the first of two visible windows was resized and succeeded on
\* the retry, the second window was acquired too, and the frame is active
C11_Witness ==
    /\ AcquireReturned
    /\ lastAcquire.ret
    /\ Len(lastAcquire.windows) = 2
    /\ lastAcquire.windows[1].resizes = 1
    /\ lastAcquire.windows[1].calls = 2
    /\ lastAcquire.windows[1].result = "VK_SUCCESS"
    /\ lastAcquire.windows[2].result = "VK_SUCCESS"

\* a step in which a call of close() returns
CloseReturns ==
    \/ Close /\ ~_threading
    \/ StopThreadingJoin /\ main.ret = "close"

\* C12: when close() returns the viewer is closed, the activity flag is false,
\* threading is inactive and no worker thread is left; a close() of a viewer in
\* that state returns at once and changes nothing
C12_CloseIdempotent ==
    [][/\ CloseReturns =>
              (Idle /\ _close /\ ~_status /\ ~_threading /\ threads = << >>)'
       /\ (Close /\ _close /\ ~_threading) =>
              /\ ~_status
              /\ UNCHANGED <<viewerVars, sessionVars, main, frame>>]_vars

\* C12 witness: close() has returned on a viewer whose threading session had
\* processed a frame: the flag is cleared and the threads are joined
C12_Witness ==
    /\ Idle
    /\ _close
    /\ ~_status
    /\ ~_threading
    /\ threads = << >>
    /\ _submissionCompleted.required >= 3
    /\ _submissionCompleted.phase >= 1

\* C13: stopThreading() called while no threading session is active changes
\* neither the activity flag nor the thread list nor the frame block nor
\* anything else, and returns at once
C13_StopThreadingNoOp ==
    [][(StopThreading /\ ~_threading) =>
          /\ Idle'
          /\ _status' = _status
          /\ threads' = threads
          /\ _frameBlock' = _frameBlock
          /\ worker' = worker
          /\ UNCHANGED <<viewerVars, sessionVars, main, frame>>]_vars

\* C13 witness: a viewer whose session was stopped by stopThreading() and that
\* is not closed, where a further stopThreading() finds no session
C13_Witness ==
    /\ Idle
    /\ ~_threading
    /\ ~_close
    /\ ~_status
    /\ threads = << >>
    /\ SumGraphs(recordAndSubmitTasks) >= 2
    /\ _submissionCompleted.required >= 2

\* nothing was recorded or submitted in the round of the bookkeeping f
NothingSubmitted(f) ==
    /\ \A t \in DOMAIN f.submits : f.submits[t] = 0 /\ f.starts[t] = 0
    /\ \A t \in DOMAIN f.recorded : \A i \in DOMAIN f.recorded[t] : f.recorded[t][i] = << >>
    /\ f.order = << >>

\* C14: with threading active recordAndSubmit() publishes the current frame
\* stamp through the frame block and goes to wait on the submission-completed
\* barrier, and the orchestrator records and submits nothing, neither in that
\* step nor while it arrives at the barrier and is released; with threading
\* inactive it submits every task once with the current stamp, in the order
\* of the task list, on the calling thread, and returns
C14_RecordAndSubmitModes ==
    [][/\ (RecordAndSubmit /\ _threading) =>
              /\ _frameBlock' = _frameStamp
              /\ main'.pc = "submissionCompleted"
              /\ _submissionCompleted' = _submissionCompleted
              /\ frame'.mode = "threaded"
              /\ NothingSubmitted(frame')
       /\ (MainArrive \/ MainRelease) =>
              /\ frame'.submits = frame.submits
              /\ frame'.starts = frame.starts
              /\ frame'.recorded = frame.recorded
              /\ frame'.submitted = frame.submitted
       /\ (main.pc = "submissionCompleted" /\ main'.pc # main.pc) =>
              /\ MainThread \notin _submissionCompleted.arrivers
              /\ \/ _submissionCompleted'.phase = _submissionCompleted.phase + 1
                 \/ MainThread \in _submissionCompleted'.arrivers
       /\ (RecordAndSubmit /\ ~_threading) =>
              /\ Idle'
              /\ UNCHANGED <<_frameBlock, _submissionCompleted, worker>>
              /\ frame'.mode = "inline"
              /\ frame'.returned
              /\ frame'.stamp = _frameStamp
              /\ frame'.order = [t \in TaskIds |-> t]
              /\ \A t \in TaskIds :
                     /\ frame'.submits[t] = 1
                     /\ frame'.submitted[t] =
                            BagOf(RecordAll(recordAndSubmitTasks[t].commandGraphs, _frameStamp))]_vars

\* C14 witness: recordAndSubmit() without threading has submitted two tasks
\* for frame 1, the first task first
C14_Witness ==
    /\ frame.mode = "inline"
    /\ frame.returned
    /\ frame.stamp = <<1>>
    /\ Len(recordAndSubmitTasks) = 2
    /\ frame.order = <<1, 2>>
    /\ ~_threading

\* the worker threads that are submitting to the queue of their task: a run
\* thread inside submit() after the recording, a primary thread inside finish()
Submitting == {th \in ThreadIds : worker[th].pc \in {"submitting", "finishing"}}

\* C15 as stated: in no reachable state of a threaded frame are two threads
\* submitting to the same device queue at the same time
C15_QueueSerialized ==
    \A th \in Submitting : \A other \in Submitting \ {th} :
        TaskOf(th).queue # TaskOf(other).queue

\* the devices that tasks have submitted work to in the last round
SubmittedDevices ==
    {recordAndSubmitTasks[t].device : t \in {u \in DOMAIN frame.submits : frame.submits[u] >= 1}}

\* C16 as stated: when the destructor releases the viewer's resources, the
\* worker threads are stopped and joined and every device that tasks have
\* submitted work to has been waited for
C16_DestroyWaitsForDevices ==
    main.pc = "destroyed" =>
        /\ ~_threading
        /\ threads = << >>
        /\ SubmittedDevices \subseteq main.waited

\* C17: a closed viewer stays closed whatever is called on it, active()
\* returns false on it (after it has waited for the devices of the windows)
\* and changes nothing of the viewer, and an advanceToNextFrame() on it
\* returns false at once and leaves the frame stamp and the events as they are
C17_ClosedIsTerminal ==
    [][/\ _close => (_close' /\ ~ViewerIsActive(_close', _windows'))
       /\ Close => (_close' /\ ~ViewerIsActive(_close', _windows'))
       /\ (Active /\ _close) =>
              /\ Idle'
              /\ ~lastAcquire'.ret
              /\ main'.waited = WindowDevices(_windows)
              /\ UNCHANGED viewerVars
       /\ (AdvanceToNextFrame /\ _close) =>
              /\ Idle'
              /\ ~lastAcquire'.ret
              /\ ~lastAcquire'.acquired
              /\ _frameStamp' = _frameStamp
              /\ _events' = _events]_vars

\* C17 witness: a closed viewer with two valid, visible windows and the stamp
\* of frame 1, on which only the close makes advanceToNextFrame() return false
C17_Witness ==
    /\ _close
    /\ Idle
    /\ _frameStamp = <<1>>
    /\ Len(_windows) = 2
    /\ \A i \in 1..Len(_windows) : _windows[i].valid /\ _windows[i].visible
    /\ ~lastAcquire.ret

\* every command graph of task t has recorded for the frame of the round
AllRecorded(t) ==
    \A i \in 1..Len(recordAndSubmitTasks[t].commandGraphs) : frame.recorded[t][i] = <<frame.stamp>>

\* no command graph of task t has recorded in the round
NoneRecorded(t) ==
    \A i \in 1..Len(recordAndSubmitTasks[t].commandGraphs) : frame.recorded[t][i] = << >>

\* the threads that are in, or about to make, a call of start() or finish()
InStartOrFinish == {th \in ThreadIds : worker[th].pc \in {"start", "finish", "finishing", "clear"}}

\* C18 as stated: in a round of a multi-graph task start() and finish() are
\* called when all threads of the group have rendezvoused at the
\* record-completed barrier of the frame, so when every graph has recorded
C18_StartAndFinishAfterRecording ==
    ThreadedRound =>
        \A t \in MultiGraphTasks :
            (frame.starts[t] >= 1 \/ frame.submits[t] >= 1) => AllRecorded(t)

\* C18 amended: start() and finish() are called by the primary thread only;
\* finish() is called when all K threads of the group have rendezvoused at the
\* record-completed barrier of the frame, so when every graph has recorded;
\* start() is called once per round before the record-start barrier, so
\* before any graph of the task records
C18_PrimaryStartsFirstFinishesLast ==
    /\ \A th \in InStartOrFinish : RoleOf(th) = "run_primary"
    /\ \A th \in ThreadIds :
           worker[th].pc \in {"finish", "finishing", "clear"} =>
               /\ sharedData[th[1]].recordCompletedBarrier.arrived = 0
               /\ AllRecorded(th[1])
               /\ \A other \in ThreadIds :
                      (other[1] = th[1] /\ other # th) =>
                          worker[other].pc \in {"recordCompleted_wait", "wfc", "blocked"}
    /\ ThreadedRound =>
           \A t \in MultiGraphTasks :
               /\ frame.starts[t] <= 1
               /\ frame.submits[t] >= 1 => (AllRecorded(t) /\ frame.starts[t] = 1)
               /\ ~NoneRecorded(t) => frame.starts[t] = 1
               /\ \A th \in ThreadIds :
                      (th[1] = t /\ worker[th].pc = "start") => NoneRecorded(t)

\* C18 witness: in the round of frame 1 the primary thread of a task with
\* three graphs has called start() and no graph of the task has recorded yet
C18_Witness ==
    /\ ThreadedRound
    /\ frame.stamp = <<1>>
    /\ \E t \in MultiGraphTasks :
           /\ Len(recordAndSubmitTasks[t].commandGraphs) = 3
           /\ frame.starts[t] = 1
           /\ NoneRecorded(t)
           /\ worker[<<t, 1>>].pc = "recordStart_wait"

\* C19: a threading session of a viewer that is not closed is live, also when
\* it was set up while a session was active or after stopThreading(): its
\* worker threads are in their loops, none has left its lambda
C19_RebuiltSessionLive ==
    (_threading /\ ~_close) => \A th \in ThreadIds : worker[th].pc # "done"

\* the published frame stamp is newer than the stamp of every worker thread
PublishedNewer == \A th \in ThreadIds : Newer(_frameBlock, worker[th].frameStamp)

\* C20: with threading active, a newer frame stamp published and the viewer
\* not closed, recordAndSubmit() returns under fair scheduling of every
\* thread, whatever the topology of the tasks
C20_RecordAndSubmitReturns ==
    (main.pc = "submissionCompleted" /\ ~_close /\ PublishedNewer) ~> (Idle /\ frame.returned)

\* a worker at this pc is inside wait_for_change or has left its lambda
AtFrameBlock(pc) == pc \in {"wfc", "blocked", "done"}

\* the last statements of the loop bodies: the arrival at the submission
\* barrier (run, run_primary) or at the record-completed barrier (run_secondary)
EndOfBody(th) ==
    CASE RoleOf(th) = "run" -> {"drop"}
      [] RoleOf(th) = "run_primary" -> {"submissionCompleted", "submissionCompleted_wait"}
      [] RoleOf(th) = "run_secondary" -> {"recordCompleted", "recordCompleted_wait"}

\* C21: cancellation is cooperative.  The step that clears the activity flag
\* changes no worker, no barrier and no shared collection; a worker leaves its
\* lambda only from wait_for_change, with the flag cleared; and a worker that
\* wait_for_change has let into a frame comes back to wait_for_change only
\* from the last statement of its loop body, flag cleared or not
C21_CooperativeCancellation ==
    [][/\ (_status /\ ~_status') =>
              /\ worker' = worker
              /\ sharedData' = sharedData
              /\ _submissionCompleted' = _submissionCompleted
       /\ \A th \in ThreadIds :
              (th \in DOMAIN worker' /\ worker'[th].pc # worker[th].pc /\ worker[th].pc # "done") =>
                  /\ worker'[th].pc = "done" => (worker[th].pc = "wfc" /\ ~_status)
                  /\ (~AtFrameBlock(worker[th].pc) /\ AtFrameBlock(worker'[th].pc)) =>
                         (worker[th].pc \in EndOfBody(th) /\ worker'[th].pc = "wfc")]_vars

\* C21 witness: close() has cleared the activity flag while the primary thread
\* of a multi-graph task is still inside its loop body for frame 0, at the
\* submission-completed barrier
C21_Witness ==
    /\ ~_status
    /\ main.pc \in {"wake", "join"}
    /\ \E th \in ThreadIds :
           /\ RoleOf(th) = "run_primary"
           /\ worker[th].pc = "submissionCompleted_wait"
           /\ worker[th].frameStamp = <<0>>

\* the parties of the submission-completed barrier: the orchestrator and the
\* first thread of every task (its run thread or its primary thread)
SubmissionParties == {MainThread} \cup {th \in ThreadIds : th[2] = 1}

\* the parties that have arrived at the submission-completed barrier in the
\* round: the orchestrator once it is past its arrive_and_wait() call, a task's
\* thread once it has submitted and is past its arrive_and_drop() or
\* arrive_and_wait() call
ArrivedParties ==
    (IF main.pc = "submissionCompleted_wait" \/ frame.returned THEN {MainThread} ELSE {})
    \cup {th \in ThreadIds :
             /\ th[2] = 1
             /\ frame.submits[th[1]] = 1
             /\ worker[th].pc \notin {"drop", "clear", "submissionCompleted"}}

\* C22: the submission-completed barrier requires one arrival per task with a
\* command graph plus one for the orchestrator, and in the round of a frame
\* exactly these parties arrive, once each: the arrivals of the barrier's
\* generation are those of the parties that are past their arrival, the
\* generation completes when all of them have arrived, recordAndSubmit()
\* returns only then, and no secondary thread is among them
C22_SubmissionBarrierArrivals ==
    ThreadedRound =>
        /\ _submissionCompleted.required = 1 + Cardinality(ValidTasks)
        /\ Cardinality(SubmissionParties) = _submissionCompleted.required
        /\ ArrivedParties \subseteq SubmissionParties
        /\ _submissionCompleted.arrivers =
               IF ArrivedParties = SubmissionParties THEN {} ELSE ArrivedParties
        /\ frame.returned => ArrivedParties = SubmissionParties
        /\ \A th \in ThreadIds :
               th[2] > 1 => worker[th].pc \notin {"drop", "submissionCompleted",
                                                  "submissionCompleted_wait"}

\* C22 witness: in the round of frame 1 the run thread of a single-graph task
\* and the primary thread of a two-graph task have arrived at the barrier of
\* three parties, the orchestrator has not
C22_Witness ==
    /\ ThreadedRound
    /\ frame.stamp = <<1>>
    /\ Len(threads) = 3
    /\ _submissionCompleted.required = 3
    /\ _submissionCompleted.arrivers = {th \in ThreadIds : th[2] = 1}
    /\ \E th \in ThreadIds : RoleOf(th) = "run"
    /\ \E th \in ThreadIds : RoleOf(th) = "run_secondary"
    /\ main.pc = "submissionCompleted"

\* the threads of the tasks with a command graph are past their arrival at
\* the submission-completed barrier in the round
ValidTasksArrived ==
    \A t \in ValidTasks :
        /\ frame.submits[t] = 1
        /\ worker[<<t, 1>>].pc \notin {"drop", "clear", "submissionCompleted"}

\* C23: a task without a command graph is a no-op in threaded mode: no thread
\* is started for it, wherever it is in the task list, the submission-completed
\* barrier does not count it, it neither starts nor submits in a round, and
\* the orchestrator is released from the barrier as soon as the tasks that do
\* own command graphs have arrived
C23_EmptyTaskIsNoOp ==
    \A t \in EmptyTasks(recordAndSubmitTasks) :
        /\ \A th \in ThreadIds : th[1] # t
        /\ Len(NewThreads(<<EmptyTask>> \o recordAndSubmitTasks, 1))
               = Len(NewThreads(recordAndSubmitTasks, 1))
        /\ _threading =>
               /\ _submissionCompleted.required = 1 + (Len(recordAndSubmitTasks)
                      - Cardinality(EmptyTasks(recordAndSubmitTasks)))
               /\ Len(threads) = SumGraphs(recordAndSubmitTasks)
        /\ ThreadedRound =>
               /\ frame.starts[t] = 0
               /\ frame.submits[t] = 0
               /\ frame.submitted[t] = << >>
               /\ (main.pc = "submissionCompleted_wait" /\ ValidTasksArrived) =>
                      _submissionCompleted.phase # main.phase
               /\ frame.returned => ValidTasksArrived

\* C23 witness: recordAndSubmit() has returned from the threaded round of
\* frame 1 on a viewer with a task without command graphs and three threads
C23_Witness ==
    /\ EmptyTasks(recordAndSubmitTasks) # {}
    /\ ThreadedRound
    /\ frame.returned
    /\ frame.stamp = <<1>>
    /\ Len(threads) = 3

\* the input positions of the command graphs of task t, in the task's order
Positions(t) ==
    [i \in 1..Len(recordAndSubmitTasks[t].commandGraphs) |->
        recordAndSubmitTasks[t].commandGraphs[i].id[2]]

\* device, queue family and present family of a command graph
FamilyOf(g) == <<g.device, g.queueFamily, g.presentFamily>>

\* device, queue family and present family of the first command graph of task t
TaskFamily(t) == FamilyOf(recordAndSubmitTasks[t].commandGraphs[1])

\* C24: assignRecordAndSubmitTaskAndPresentation partitions its input.  The
\* command graphs of the tasks are the graphs at the positions 1..N of the
\* input, each in one task and once; the graphs of a task have the same
\* device, queue family and present family and are in input order; and the
\* presentations are, one each, those of the tasks with a present family >= 0
C24_AssignPartitions ==
    LET total == SumGraphs(recordAndSubmitTasks)
    IN /\ \A n \in 1..total :
              Cardinality({<<t, i>> \in TaskIds \X (1..total) :
                              /\ i <= Len(recordAndSubmitTasks[t].commandGraphs)
                              /\ Positions(t)[i] = n}) = 1
       /\ \A t \in TaskIds :
              LET cgs == recordAndSubmitTasks[t].commandGraphs
              IN /\ Len(cgs) >= 1
                 /\ \A i \in 1..Len(cgs) :
                        /\ cgs[i].device = recordAndSubmitTasks[t].device
                        /\ FamilyOf(cgs[i]) = TaskFamily(t)
                 /\ \A i, j \in 1..Len(cgs) : i < j => Positions(t)[i] < Positions(t)[j]
                 /\ Cardinality({p \in 1..Len(presentations) : presentations[p].task = t})
                        = IF TaskFamily(t)[3] >= 0 THEN 1 ELSE 0
       /\ \A p \in 1..Len(presentations) : presentations[p].task \in TaskIds
       /\ Len(presentations)
              = Cardinality({t \in TaskIds : TaskFamily(t)[3] >= 0})

\* C24 witness: of three command graphs the first and the third went into one
\* task and the second into another, and one of the two tasks has no
\* present family and no Presentation
C24_Witness ==
    /\ Len(recordAndSubmitTasks) = 2
    /\ Len(presentations) = 1
    /\ \E t \in TaskIds : Positions(t) = <<1, 3>>
    /\ \E t \in TaskIds : Positions(t) = <<2>>

\* the tasks whose command graphs render to window w
TasksFeeding(w) ==
    {t \in TaskIds : w \in UniqueWindows(recordAndSubmitTasks[t].commandGraphs)}

\* task t has submitted the command buffers of the frame of the round
SubmittedForFrame(t) ==
    /\ frame.submits[t] = 1
    /\ frame.submitted[t] = BagOf(RecordAll(recordAndSubmitTasks[t].commandGraphs, frame.stamp))

\* C25: a Presentation waits on exactly the render-finished semaphore that its
\* paired task signals, which no other task signals, and presents exactly the
\* windows of that task's command graphs; and when present() has been issued
\* for a window in the frame loop, every task that feeds the window has
\* submitted for the frame
C25_PresentAfterSubmit ==
    /\ \A p \in 1..Len(presentations) :
           LET t == presentations[p].task
           IN /\ t \in TaskIds
              /\ Len(presentations[p].waitSemaphores) = 1
              /\ presentations[p].waitSemaphores = recordAndSubmitTasks[t].signalSemaphores
              /\ \A u \in TaskIds \ {t} :
                     \A n \in 1..Len(recordAndSubmitTasks[u].signalSemaphores) :
                         recordAndSubmitTasks[u].signalSemaphores[n]
                             # presentations[p].waitSemaphores[1]
              /\ presentations[p].windows
                     = UniqueWindows(recordAndSubmitTasks[t].commandGraphs)
    /\ \A p \in 1..Len(frame.presented) :
           /\ frame.presented[p].waitSemaphores = presentations[p].waitSemaphores
           /\ frame.presented[p].windows = presentations[p].windows
           /\ \A w \in frame.presented[p].windows :
                  \A t \in TasksFeeding(w) : SubmittedForFrame(t)

\* C25 witness: after the threaded round of frame 1, present() was issued by
\* two Presentations for the same window, which is fed by a single-graph task
\* and by a two-graph task
C25_Witness ==
    /\ ThreadedRound
    /\ frame.stamp = <<1>>
    /\ Len(frame.presented) = 2
    /\ Len(threads) = 3
    /\ frame.presented[1].windows = {1}
    /\ frame.presented[2].windows = {1}
    /\ Cardinality(TasksFeeding(1)) = 2

\* the ids of the command graphs of the tasks
AllGraphIds ==
    UNION {{recordAndSubmitTasks[t].commandGraphs[i].id :
               i \in 1..Len(recordAndSubmitTasks[t].commandGraphs)} : t \in TaskIds}

\* C26: compile() does nothing when there are no tasks; otherwise every
\* command graph is compiled before the transfers are dispatched, the
\* transfers of every device are dispatched before the first wait and
\* completed before the first pager is started, and a pager that is started
\* has been given a compile traversal
C26_CompileOrder ==
    LET c == main.compile
    IN /\ (c.stage = "returned" /\ recordAndSubmitTasks = << >>) =>
              c = [NoCompile EXCEPT !.stage = "returned"]
       /\ (c.stage \in {"dispatch", "wait", "start", "returned"}
              /\ recordAndSubmitTasks # << >>) =>
              /\ c.compiled = AllGraphIds
              /\ c.devices = DeviceResourceMap(recordAndSubmitTasks)
       /\ c.completed # {} => c.dispatched = c.devices
       /\ \A p \in PagerIds :
              c.pagers[p].started = 1 =>
                  /\ c.dispatched = c.devices
                  /\ c.completed = c.devices
                  /\ c.pagers[p].compileTraversal # 0

\* the positions of the FrameEvents in an event queue
FrameEvents(evs) == {i \in 1..Len(evs) : evs[i][1] = "frame"}

\* the queue holds the events of one frame: events of the windows, at most one
\* per window, followed by a single FrameEvent that carries the stamp
EventsOfFrame(evs, stamp) ==
    /\ Len(evs) >= 1
    /\ Len(evs) <= Len(_windows) + 1
    /\ evs[Len(evs)] = <<"frame", stamp>>
    /\ FrameEvents(evs) = {Len(evs)}

\* C27: every advance() and every advanceToNextFrame() that returns true
\* leaves an event queue without the events of the previous frame, whose last
\* event is the one FrameEvent of the queue and carries the new frame stamp;
\* the new stamp is a new value (the stamp published to the workers is not
\* touched), and the first stamp ever created has frame count 0
C27_FrameEventPerAdvance ==
    [][(Advance \/ (AdvanceToNextFrameReturn /\ lastAcquire'.ret)) =>
           /\ _frameStamp' # _frameStamp
           /\ _frameStamp' # NullStamp
           /\ _frameStamp = NullStamp => FrameCount(_frameStamp') = 0
           /\ EventsOfFrame(_events, _frameStamp)' 
           /\ _frameBlock' = _frameBlock
           /\ worker' = worker]_vars

\* C27 witness: advanceToNextFrame() has returned true for frame 1; the queue
\* holds an event of each of the two windows and then the FrameEvent of frame 1
C27_Witness ==
    /\ lastAcquire.ret
    /\ lastAcquire.acquired
    /\ Idle
    /\ _frameStamp = <<1>>
    /\ _events = <<(<<"window", 1>>), (<<"window", 2>>), (<<"frame", <<1>>>>)>>

\* a worker thread is inside its loop body
InLoopBody(th) == ~AtFrameBlock(worker[th].pc)

\* a thread that the last barrier of its loop body has released and that has
\* not yet returned from arrive_and_wait(): a primary at the
\* submission-completed barrier, a secondary at the record-completed barrier
ReleasedFromRound(th) ==
    \/ /\ worker[th].pc = "submissionCompleted_wait"
       /\ _submissionCompleted.phase # worker[th].phase
    \/ /\ worker[th].pc = "recordCompleted_wait"
       /\ RoleOf(th) = "run_secondary"
       /\ sharedData[th[1]].recordCompletedBarrier.phase # worker[th].phase

\* the state of a threaded round: the published stamp is the one of the round,
\* no worker holds a newer one, a worker inside its loop body (and not just
\* released from the barrier of the round before) holds it, every
\* command graph has recorded at most once and with that stamp, and when
\* recordAndSubmit() has returned every worker holds it and has recorded once
RoundInOrder ==
    ThreadedRound =>
        /\ _frameBlock = frame.stamp
        /\ \A th \in ThreadIds :
               /\ ~Newer(worker[th].frameStamp, _frameBlock)
               /\ (InLoopBody(th) /\ ~ReleasedFromRound(th)) =>
                      worker[th].frameStamp = frame.stamp
               /\ frame.recorded[th[1]][th[2]] \in {<< >>, <<frame.stamp>>}
               /\ frame.recorded[th[1]][th[2]] # << >> => worker[th].frameStamp = frame.stamp
               /\ frame.returned =>
                      /\ worker[th].frameStamp = frame.stamp
                      /\ frame.recorded[th[1]][th[2]] = <<frame.stamp>>

\* C28: every worker thread processes every published frame once and in the
\* order of publication.  A worker that wait_for_change lets into a frame takes
\* the published stamp, which is newer than its own; when recordAndSubmit()
\* publishes a frame every worker holds the stamp published before it (none
\* has skipped it); and in a round all threads record once, with the stamp
\* published by recordAndSubmit()
C28_FramesInOrder ==
    [][/\ RoundInOrder'
       /\ (RecordAndSubmit /\ _threading) =>
              \A th \in ThreadIds : worker[th].frameStamp = _frameBlock
       /\ \A th \in ThreadIds :
              (th \in DOMAIN worker' /\ worker[th].pc = "wfc" /\ InLoopBody(th)') =>
                  /\ Newer(_frameBlock, worker[th].frameStamp)
                  /\ worker'[th].frameStamp = _frameBlock]_vars

\* C28 witness: recordAndSubmit() has returned from the round of frame 1, the
\* second frame published in the session, and the three threads of a
\* multi-graph task have each recorded once with the stamp of frame 1
C28_Witness ==
    /\ ThreadedRound
    /\ frame.returned
    /\ frame.stamp = <<1>>
    /\ _submissionCompleted.phase = 2
    /\ \E t \in MultiGraphTasks :
           /\ Len(recordAndSubmitTasks[t].commandGraphs) = 3
           /\ \A i \in 1..3 :
                  /\ frame.recorded[t][i] = <<(<<1>>)>>
                  /\ worker[<<t, i>>].frameStamp = <<1>>

\* the thread is between its release from the record-start barrier and its
\* arrival at the record-completed barrier, where it records and calls add()
InRecording(th) == worker[th].pc \in {"record", "recordCompleted"}

\* the primary thread reads the shared collection in finish() or clears it
ReadsOrClears(th) == worker[th].pc \in {"finish", "finishing", "clear"}

\* C29: the shared recordedCommandBuffers collection is not accessed by two
\* threads at once outside the mutex: while the primary thread of a group
\* reads it in finish() or clears it, no other thread of the group is in its
\* recording phase (where add() is called), for the same or for the next
\* frame; the secondaries are at the wait of the record-completed barrier or
\* in wait_for_change, holding the stamp of the primary's frame
C29_AccumulatorExclusive ==
    \A th \in ThreadIds :
        ReadsOrClears(th) =>
            /\ RoleOf(th) = "run_primary"
            /\ \A other \in ThreadIds :
                   (other[1] = th[1] /\ other # th) =>
                       /\ ~InRecording(other)
                       /\ worker[other].pc \in {"recordCompleted_wait", "wfc", "blocked"}
                       /\ worker[other].frameStamp = worker[th].frameStamp

\* C29 witness: the primary thread of a three-graph task is about to clear
\* the collection for frame 1; one secondary has not yet returned from the
\* record-completed barrier, the other is back in wait_for_change
C29_Witness ==
    \E t \in MultiGraphTasks :
        /\ Len(recordAndSubmitTasks[t].commandGraphs) = 3
        /\ <<t, 3>> \in ThreadIds
        /\ worker[<<t, 1>>].pc = "clear"
        /\ worker[<<t, 1>>].frameStamp = <<1>>
        /\ worker[<<t, 2>>].pc = "recordCompleted_wait"
        /\ worker[<<t, 3>>].pc = "blocked"
        /\ Len(sharedData[t].recordedCommandBuffers) = 9

\* the calls of start() and of finish() made for task t in the round
Starts(t) == frame.starts[t]
Finishes(t) == frame.submits[t]

\* some thread of the group of task t has begun to record in the round
RecordingBegun(t) ==
    \/ ~NoneRecorded(t)
    \/ \E th \in ThreadIds : th[1] = t /\ InRecording(th)

\* C30: in a round of a multi-graph task the primary's start() has returned
\* before any thread of the group begins to record, and start() and finish()
\* alternate: in a round finish() is called at most once and only after the
\* round's one start(), at the return of recordAndSubmit() both have been
\* called once, and the next round, with the next start(), begins only then
C30_StartBeforeRecording ==
    [][/\ ThreadedRound' =>
              \A t \in MultiGraphTasks' :
                  /\ Finishes(t)' <= Starts(t)'
                  /\ Starts(t)' <= 1
                  /\ RecordingBegun(t)' =>
                         /\ Starts(t)' = 1
                         /\ worker'[<<t, 1>>].frameStamp = frame'.stamp
                  /\ (worker'[<<t, 1>>].pc = "start" /\ Starts(t)' = 0) =>
                         ~RecordingBegun(t)'
                  /\ frame'.returned => (Starts(t)' = 1 /\ Finishes(t)' = 1)
       /\ (ThreadedRound /\ RecordAndSubmit /\ _threading) =>
              \A t \in MultiGraphTasks : Starts(t) = Finishes(t)
       /\ \A t \in MultiGraphTasks :
              (ThreadedRound /\ ThreadedRound' /\ frame'.stamp = frame.stamp
                /\ Starts(t)' > Starts(t)) =>
                  /\ Starts(t) = 0
                  /\ Finishes(t) = 0
                  /\ NoneRecorded(t)
                  /\ \A th \in ThreadIds : th[1] = t => ~InRecording(th)]_vars

\* C30 witness: in the round of frame 1 the primary and a secondary thread of
\* a multi-graph task are recording after the round's start(), and finish()
\* has not been called in the round
C30_Witness ==
    /\ ThreadedRound
    /\ frame.stamp = <<1>>
    /\ \E t \in MultiGraphTasks :
           /\ <<t, 2>> \in ThreadIds
           /\ worker[<<t, 1>>].pc = "record"
           /\ worker[<<t, 2>>].pc = "record"
           /\ Starts(t) = 1
           /\ Finishes(t) = 0

\* the orchestrator is between two calls, or inside stopThreading()
OutsideRecordAndSubmit == main.pc \in {"idle", "wake", "join"}

\* a worker with no barrier wait between it and its next wait_for_change: it is
\* in wait_for_change (or has left its lambda from there), or the last barrier
\* of its loop body has released it already
NoBarrierAhead(th) ==
    \/ AtFrameBlock(worker[th].pc)
    \/ ReleasedFromRound(th)

\* C31: whenever the orchestrator is outside recordAndSubmit() while worker
\* threads exist (between frames with threading active, or inside
\* stopThreading()), every worker is in wait_for_change, has left its lambda
\* from there, or has been released by the last barrier of its loop body: none
\* is blocked at, or has still to arrive at, the record-start, the
\* record-completed or the submission-completed barrier
C31_NoWorkerAtBarrierBetweenFrames ==
    (OutsideRecordAndSubmit /\ (_threading \/ ~Idle)) =>
        \A th \in ThreadIds : NoBarrierAhead(th)

\* C31 witness: recordAndSubmit() has returned for a frame with threading
\* active while a primary thread has not yet returned from the
\* submission-completed barrier and a secondary thread of its group has not
\* yet returned from the record-completed barrier, both released
C31_Witness ==
    /\ Idle
    /\ _threading
    /\ frame.returned
    /\ \E t \in MultiGraphTasks :
           /\ <<t, 2>> \in ThreadIds
           /\ worker[<<t, 1>>].pc = "submissionCompleted_wait"
           /\ worker[<<t, 2>>].pc = "recordCompleted_wait"
           /\ ReleasedFromRound(<<t, 1>>)
           /\ ReleasedFromRound(<<t, 2>>)

\* a step in which a call of advanceToNextFrame() returns
AdvanceToNextFrameReturns ==
    \/ AdvanceToNextFrame /\ Idle'
    \/ AdvanceToNextFrameReturn

\* the FrameEvents of the queue, in order
QueuedFrameEvents(evs) == SelectSeq(evs, LAMBDA e : e[1] = "frame")

\* C32: a call of advanceToNextFrame() that returns false (viewer closed, a
\* window invalid, or acquireNextFrame() failed) has left the frame stamp as
\* it was and has put no FrameEvent into the queue, at no step of the call; a
\* call returns true exactly when it has replaced the frame stamp by a new one,
\* and then it has put the one FrameEvent of that stamp into the queue
C32_FalseLeavesFrame ==
    [][/\ (AdvanceToNextFrame \/ AcquireNextImage) =>
              /\ _frameStamp' = _frameStamp
              /\ QueuedFrameEvents(_events') \in {<< >>, QueuedFrameEvents(_events)}
              /\ main'.pc = "acquire" => QueuedFrameEvents(_events') = << >>
       /\ AdvanceToNextFrameReturns =>
              /\ lastAcquire'.ret <=> (_frameStamp' # _frameStamp)
              /\ ~lastAcquire'.ret =>
                     /\ _frameStamp' = _frameStamp
                     /\ QueuedFrameEvents(_events') \in {<< >>, QueuedFrameEvents(_events)}
                     /\ lastAcquire'.acquired => QueuedFrameEvents(_events') = << >>
              /\ lastAcquire'.ret =>
                     /\ ViewerIsActive(_close, _windows)
                     /\ lastAcquire'.acquired
                     /\ QueuedFrameEvents(_events') = <<(<<"frame", _frameStamp'>>)>>]_vars

\* C32 witness: on a viewer with the stamp of frame 0 that is not closed and
\* whose windows are valid, advanceToNextFrame() has returned false because
\* the acquire failed on a visible window; the stamp is still the one of
\* frame 0 and the queue holds an event of a window and no FrameEvent
C32_Witness ==
    /\ Idle
    /\ ~_close
    /\ ViewerIsActive(_close, _windows)
    /\ lastAcquire.acquired
    /\ ~lastAcquire.ret
    /\ \E i \in 1..Len(lastAcquire.windows) : lastAcquire.windows[i].result \in Unrecoverable
    /\ _frameStamp = <<0>>
    /\ Len(_events) >= 1
    /\ QueuedFrameEvents(_events) = << >>

====
